---- MODULE Spec2Model ----
(***************************************************************************)
(* Model of the resolution pipeline of douban-movie-scraper:               *)
(*   HttpClient.fetch (core/http.ts), searchMovie and selectBestMatch      *)
(*   (core/search.ts), getMovieInfo and the field parsers (core/parser.ts, *)
(*   stored as src/unnamed/part_002).                                      *)
(*                                                                         *)
(* A JavaScript string is a sequence of tokens.  A token is one character  *)
(* ("a", " ", "<") or, for URLs, one opaque chunk ("/subject/", "123").    *)
(* undefined and "" behave alike in every test the code makes on a string  *)
(* (!x, x || ''), so a missing string field is the empty sequence.         *)
(* A CJK character is written as one token holding its pinyin ("wei").     *)
(***************************************************************************)
EXTENDS Integers, Sequences, FiniteSets, TLC

\* ------------------------------------------------------------------------
\* Bounds of the model
\* ------------------------------------------------------------------------
MaxRetriesOpt == 2      \* largest retry count a caller configures explicitly
MaxItems == 2           \* entries in a suggestion payload / search page
MaxCands == 3           \* candidates handed to selectBestMatch
MaxFrags == 3           \* markup fragments of a detail page

\* ------------------------------------------------------------------------
\* Program constants
\* ------------------------------------------------------------------------
MAX_RETRIES == 3
DEFAULT_TIMEOUT == 10000
USER_AGENT == "Mozilla/5.0"
RETRY_DELAY == 1000
BASE_URL == <<"h", "t", "t", "p", "s", ":", "/", "/", "movie.douban.com">>

NETWORK_ERROR == "NETWORK_ERROR"
PARSE_ERROR == "PARSE_ERROR"
NO_RESULTS == "NO_RESULTS"
INVALID_ARGS == "INVALID_ARGS"
\* a raw exception that is not a DoubanScraperError (TypeError, SyntaxError)
RAW_ERROR == "RAW_ERROR"

\* ------------------------------------------------------------------------
\* String helpers (JavaScript String methods and StringUtils)
\* ------------------------------------------------------------------------
Whitespace == {" ", "\t"}

RECURSIVE TrimStart(_)
TrimStart(s) ==
  IF s = <<>> THEN <<>>
  ELSE IF Head(s) \in Whitespace THEN TrimStart(Tail(s)) ELSE s

RECURSIVE TrimEnd(_)
TrimEnd(s) ==
  IF s = <<>> THEN <<>>
  ELSE IF s[Len(s)] \in Whitespace THEN TrimEnd(SubSeq(s, 1, Len(s) - 1)) ELSE s

\* String.prototype.trim
Trim(s) == TrimEnd(TrimStart(s))

\* text.replace(/\s+/g, ' '): every maximal run of whitespace becomes one " "
CollapseWhitespace(s) ==
  LET marked == [i \in 1..Len(s) |->
                   [c |-> IF s[i] \in Whitespace THEN " " ELSE s[i],
                    keep |-> s[i] \notin Whitespace \/ i = 1 \/ s[i - 1] \notin Whitespace]]
      Kept(x) == x.keep
      kept == SelectSeq(marked, Kept)
  IN  [i \in 1..Len(kept) |-> kept[i].c]

cleanWhitespace(text) == Trim(CollapseWhitespace(text))

\* html.replace(/<[^>]*>/g, ''): a "<" with a later ">" is removed up to it
RemoveTags(s) ==
  IF \A i \in 1..Len(s) : s[i] # "<" THEN s
  ELSE LET InTag(i) == /\ \E k \in i..Len(s) : s[k] = ">"
                       /\ \E j \in 1..i : s[j] = "<" /\ \A k \in j..(i - 1) : s[k] # ">"
           marked == [i \in 1..Len(s) |-> [c |-> s[i], keep |-> ~InTag(i)]]
           Kept(x) == x.keep
           kept == SelectSeq(marked, Kept)
       IN  [i \in 1..Len(kept) |-> kept[i].c]

stripHtml(html) == Trim(RemoveTags(html))

LowerOf(c) ==
  CASE c = "A" -> "a"
    [] c = "B" -> "b"
    [] c = "C" -> "c"
    [] OTHER -> c

\* String.prototype.toLowerCase
toLowerCase(s) == [i \in 1..Len(s) |-> LowerOf(s[i])]

\* String.prototype.startsWith
StartsWith(s, p) == Len(s) >= Len(p) /\ SubSeq(s, 1, Len(p)) = p

\* String.prototype.includes
Includes(s, p) ==
  \E i \in 1..(Len(s) - Len(p) + 1) : SubSeq(s, i, i + Len(p) - 1) = p

\* ------------------------------------------------------------------------
\* State
\* ------------------------------------------------------------------------
VARIABLES
  maxRetries,   \* HttpClient.maxRetries
  fpc,          \* position of the running HttpClient.fetch call
  attempt,      \* loop variable of HttpClient.fetch
  reqUrl,       \* url argument of the running fetch call
  attemptLog,   \* outcome of every network attempt of the running call
  delayLog,     \* every delay(ms) the running call has slept
  fres,         \* how the fetch call completed
  spc,          \* position of the searchMovie call
  movieName,    \* argument of searchMovie
  results,      \* local variable results of searchMovie
  mainOutcome,  \* how searchMovieMain completed
  backupOutcome,\* how searchMovieBackup completed
  mainBody,     \* payload searchMovieMain received (NoBody: fetch failed)
  backupBody,   \* page searchMovieBackup received (NoBody: fetch failed)
  mainList,     \* value returned by searchMovieMain
  backupList,   \* value returned by searchMovieBackup
  sres,         \* how the searchMovie call completed
  bestMatch,    \* value returned by selectBestMatch
  selres,       \* how the selectBestMatch call completed
  scores,       \* local variable scoredResults of selectBestMatch, as mapped
  dpc,          \* position of the getMovieInfo call
  movieUrl,     \* argument of getMovieInfo
  detailBody,   \* page getMovieInfo received (NoBody: fetch failed)
  movieInfo,    \* value returned by getMovieInfo
  dres,         \* how the getMovieInfo call completed
  rawInfo,      \* record handed to validateMovieInfo and cleanMovieInfo
  cleaned,      \* values returned by successive cleanMovieInfo calls
  timeout,      \* HttpClient.timeout
  userAgent,    \* HttpClient.userAgent
  requestOptions, \* local requestOptions of the running fetch call
  callConfig,   \* the client's maxRetries and timeout when fetch was entered
  timeoutLog,   \* the timeout every attempt of the running call was armed with
  retriesGiven, \* the retries value the client was last configured with, and how
  apiResponse,  \* the Response handleMovieSearchApi has returned
  mwRequest,    \* the Request handed to the handler applyMiddleware returned
  index,        \* local variable index of combineMiddlewares
  awaiting,     \* the middlewares that await next(), outermost first
  settled       \* what the innermost completed call returned or threw

fetchVars == <<maxRetries, fpc, attempt, reqUrl, attemptLog, delayLog, fres>>
searchVars == <<spc, movieName, results, mainOutcome, backupOutcome,
                mainBody, backupBody, mainList, backupList, sres>>
selectVars == <<bestMatch, selres, scores>>
detailVars == <<dpc, movieUrl, detailBody, movieInfo, dres>>
cleanVars == <<rawInfo, cleaned>>
clientVars == <<timeout, userAgent, requestOptions, callConfig, timeoutLog,
                retriesGiven>>
apiVars == <<apiResponse>>
mwVars == <<mwRequest, index, awaiting, settled>>
idleVars == <<cleanVars, apiVars, mwVars>>
appVars == <<idleVars, clientVars>>
vars == <<fetchVars, searchVars, selectVars, detailVars, appVars>>

Pending == [kind |-> "pending", type |-> "", status |-> 0]
ResponseOf(st) == [kind |-> "response", type |-> "", status |-> st]
ErrorOf(t) == [kind |-> "error", type |-> t, status |-> 0]

NoUrl == [endpoint |-> "none", arg |-> <<>>]

\* ------------------------------------------------------------------------
\* HttpClient (core/http.ts)
\* ------------------------------------------------------------------------
\* what one network attempt can end in: an HTTP status, the abort of the
\* attempt's own AbortController, or a transport exception of fetch()
Statuses == {200, 304, 404, 500}
NetOutcomes ==
  [kind : {"status"}, status : Statuses]
    \cup {[kind |-> "timeout", status |-> 0], [kind |-> "transport", status |-> 0]}

\* Response.ok
ResponseOk(st) == st >= 200 /\ st <= 299

shouldNotRetry(status) == status >= 400 /\ status < 500

\* the constructor called without a retries option
NotGiven == -1

\* constructor: options?.retries || HTTP_CONFIG.MAX_RETRIES
\* (|| treats an explicit 0 like an option that is not given)
HttpClientNew(retries) ==
  IF retries = NotGiven \/ retries = 0 THEN MAX_RETRIES ELSE retries

Constructed(retries) == [by |-> "constructor", retries |-> retries]

NoOptions == [userAgent |-> ""]
NoConfig == [maxRetries |-> 0, timeout |-> 0]

setUserAgent(agent) ==
  /\ userAgent' = agent
  /\ UNCHANGED <<timeout, requestOptions, callConfig, timeoutLog, retriesGiven>>
  /\ UNCHANGED <<fetchVars, searchVars, selectVars, detailVars, idleVars>>

setTimeout(ms) ==
  /\ timeout' = ms
  /\ UNCHANGED <<userAgent, requestOptions, callConfig, timeoutLog, retriesGiven>>
  /\ UNCHANGED <<fetchVars, searchVars, selectVars, detailVars, idleVars>>

setMaxRetries(retries) ==
  /\ maxRetries' = retries
  /\ retriesGiven' = [by |-> "setMaxRetries", retries |-> retries]
  /\ UNCHANGED <<fpc, attempt, reqUrl, attemptLog, delayLog, fres, searchVars,
                 selectVars, detailVars>>
  /\ UNCHANGED <<timeout, userAgent, requestOptions, callConfig, timeoutLog, idleVars>>

\* buildRequestOptions: the default headers carry this.userAgent
buildRequestOptions == [userAgent |-> userAgent]

\* entry of HttpClient.fetch: buildRequestOptions, attempt = 0
FetchBegin(url) ==
  /\ fpc' = "loop"
  /\ attempt' = 0
  /\ reqUrl' = url
  /\ attemptLog' = <<>>
  /\ delayLog' = <<>>
  /\ fres' = Pending
  /\ requestOptions' = buildRequestOptions
  /\ callConfig' = [maxRetries |-> maxRetries, timeout |-> timeout]
  /\ timeoutLog' = <<>>
  /\ UNCHANGED <<maxRetries, timeout, userAgent, retriesGiven, idleVars>>

\* mutant: the loop test written attempt < this.maxRetries
FetchSend_LoopOffByOne ==
  /\ fpc = "loop"
  /\ IF attempt < maxRetries
     THEN /\ fpc' = "inflight"
          /\ fres' = fres
          /\ timeoutLog' = Append(timeoutLog, timeout)
     ELSE /\ fpc' = "done"
          /\ fres' = ErrorOf(NETWORK_ERROR)
          /\ timeoutLog' = timeoutLog
  /\ UNCHANGED <<maxRetries, attempt, reqUrl, attemptLog, delayLog, searchVars,
                 selectVars, detailVars>>
  /\ UNCHANGED <<timeout, userAgent, requestOptions, callConfig, retriesGiven, idleVars>>

\* the for-loop test and fetchWithTimeout issuing the request
FetchSend ==
  /\ fpc = "loop"
  /\ IF attempt <= maxRetries
     THEN /\ fpc' = "inflight"
          /\ fres' = fres
          /\ timeoutLog' = Append(timeoutLog, timeout)
     ELSE /\ fpc' = "done"
          /\ fres' = ErrorOf(NETWORK_ERROR)
          /\ timeoutLog' = timeoutLog
  /\ UNCHANGED <<maxRetries, attempt, reqUrl, attemptLog, delayLog, searchVars,
                 selectVars, detailVars>>
  /\ UNCHANGED <<timeout, userAgent, requestOptions, callConfig, retriesGiven, idleVars>>

\* what a failed attempt throws into the catch of fetch: fetchWithTimeout
\* turns an abort into a NetworkError and rethrows any other exception as it
\* is; a non-ok status is thrown as a NetworkError
ThrownBy(o) == IF o.kind = "transport" THEN RAW_ERROR ELSE NETWORK_ERROR

\* mutant: the catch rethrows whatever it caught
CatchLast_Rethrow(e) == e

\* the catch on the last attempt: a DoubanScraperError is rethrown, anything
\* else is wrapped by createNetworkError
CatchLast(e) == IF e = RAW_ERROR THEN NETWORK_ERROR ELSE e

\* the body of the loop from the settling of the request to the next await
FetchSettle(o) ==
  /\ fpc = "inflight"
  /\ attemptLog' = Append(attemptLog, o)
  /\ IF o.kind = "status" /\ ResponseOk(o.status)
     THEN \* return response
          /\ fpc' = "done"
          /\ fres' = ResponseOf(o.status)
          /\ attempt' = attempt
     ELSE IF attempt = maxRetries
     THEN \* thrown in the try or by fetchWithTimeout, rethrown by the catch
          /\ fpc' = "done"
          /\ fres' = ErrorOf(CatchLast(ThrownBy(o)))
          /\ attempt' = attempt
     ELSE IF o.kind = "status" /\ ~shouldNotRetry(o.status)
     THEN \* nothing thrown: the loop goes on with attempt++
          /\ fpc' = "loop"
          /\ fres' = fres
          /\ attempt' = attempt + 1
     ELSE \* thrown (4xx, timeout, transport) and caught: await this.delay
          /\ fpc' = "delay"
          /\ fres' = fres
          /\ attempt' = attempt
  /\ UNCHANGED <<maxRetries, reqUrl, delayLog, searchVars, selectVars, detailVars>>
  /\ UNCHANGED appVars

\* delay(RETRY_DELAY * (attempt + 1)) elapses, the loop goes on with attempt++
FetchDelayElapsed ==
  /\ fpc = "delay"
  /\ delayLog' = Append(delayLog, RETRY_DELAY * (attempt + 1))
  /\ attempt' = attempt + 1
  /\ fpc' = "loop"
  /\ UNCHANGED <<maxRetries, reqUrl, attemptLog, fres, searchVars, selectVars,
                 detailVars>>
  /\ UNCHANGED appVars

\* the caller's await on fetch has resumed: the call frame is gone
FetchEnd ==
  /\ fpc' = "idle"
  /\ attempt' = 0
  /\ reqUrl' = NoUrl
  /\ attemptLog' = <<>>
  /\ delayLog' = <<>>
  /\ fres' = Pending
  /\ requestOptions' = NoOptions
  /\ callConfig' = NoConfig
  /\ timeoutLog' = <<>>
  /\ UNCHANGED <<maxRetries, timeout, userAgent, retriesGiven, idleVars>>

\* a caller invokes fetch directly
Urls == {[endpoint |-> "page", arg |-> <<>>]}

FetchCall(url) ==
  /\ fpc = "idle"
  /\ spc = "idle"
  /\ dpc = "idle"
  /\ FetchBegin(url)
  /\ UNCHANGED <<searchVars, selectVars, detailVars>>

\* ------------------------------------------------------------------------
\* searchMovie (core/search.ts)
\* ------------------------------------------------------------------------
DigitTokens == {"1", "2", "3", "5", "6"}

\* url.match(REGEX_PATTERNS.MOVIE_ID), MOVIE_ID = /\/subject\/(\d+)\//:
\* the capture of the leftmost match, <<>> when there is no match
RECURSIVE MatchMovieId(_)
MatchMovieId(url) ==
  IF Len(url) < 5 THEN <<>>
  ELSE IF /\ url[1] = "/" /\ url[2] = "subject" /\ url[3] = "/"
          /\ url[4] \in DigitTokens /\ url[5] = "/"
       THEN <<url[4]>>
       ELSE MatchMovieId(Tail(url))

Http == <<"h", "t", "t", "p">>

\* url.startsWith('http') ? url : `${DOUBAN_CONFIG.BASE_URL}${url}`
AbsoluteUrl(url) == IF StartsWith(url, Http) THEN url ELSE BASE_URL \o url

Candidate(id, url, title) == [id |-> id, url |-> url, title |-> title]

\* the loop of parseJsonSearchResults over entries that are objects
RECURSIVE JsonLoop(_)
JsonLoop(data) ==
  IF data = <<>> THEN <<>>
  ELSE LET item == Head(data)
           idMatch == MatchMovieId(item.url)
           id == IF idMatch # <<>> THEN idMatch ELSE item.id
       IN  IF item.title = <<>> \/ item.url = <<>>
           THEN JsonLoop(Tail(data))
           ELSE IF id # <<>>
           THEN <<Candidate(id, AbsoluteUrl(item.url),
                            cleanWhitespace(stripHtml(item.title)))>>
                  \o JsonLoop(Tail(data))
           ELSE JsonLoop(Tail(data))

Ok(v) == [thrown |-> FALSE, type |-> "", value |-> v]
Thrown(t) == [thrown |-> TRUE, type |-> t, value |-> <<>>]

\* a null entry makes item.title raise a TypeError, rethrown as a ParseError
parseJsonSearchResults(data) ==
  IF \E i \in 1..Len(data) : data[i].isNull
  THEN Thrown(PARSE_ERROR)
  ELSE Ok(JsonLoop(data))

\* the exec loop of parseHtmlSearchResults over the matches of resultPattern;
\* a match is one result block: (href, digits of the href, title text)
RECURSIVE HtmlLoop(_)
HtmlLoop(matches) ==
  IF matches = <<>> THEN <<>>
  ELSE LET m == Head(matches)
       IN  IF m.id # <<>> /\ m.title # <<>>
           THEN <<Candidate(m.id, AbsoluteUrl(m.url),
                            cleanWhitespace(stripHtml(m.title)))>>
                  \o HtmlLoop(Tail(matches))
           ELSE HtmlLoop(Tail(matches))

parseHtmlSearchResults(html) == Ok(HtmlLoop(html))

\* mutant: searchMovieMain without its catch
searchMovieMain_NoCatch(body) ==
  IF body.kind = "none" THEN [outcome |-> "fetch_error", r |-> Thrown(NETWORK_ERROR)]
  ELSE IF body.kind = "invalid" THEN [outcome |-> "json_error", r |-> Thrown(RAW_ERROR)]
  ELSE IF body.kind # "array" THEN [outcome |-> "not_array", r |-> Ok(<<>>)]
  ELSE IF parseJsonSearchResults(body.data).thrown
       THEN [outcome |-> "mapping_error", r |-> Thrown(PARSE_ERROR)]
       ELSE [outcome |-> "ok", r |-> parseJsonSearchResults(body.data)]

\* searchMovieMain after await fetchJson: body is the payload of the
\* response, NoBody when fetch threw
searchMovieMain(body) ==
  IF body.kind = "none" THEN [outcome |-> "fetch_error", r |-> Ok(<<>>)]
  ELSE IF body.kind = "invalid" THEN [outcome |-> "json_error", r |-> Ok(<<>>)]
  ELSE IF body.kind # "array" THEN [outcome |-> "not_array", r |-> Ok(<<>>)]
  ELSE IF parseJsonSearchResults(body.data).thrown
       THEN [outcome |-> "mapping_error", r |-> Ok(<<>>)]
       ELSE [outcome |-> "ok", r |-> parseJsonSearchResults(body.data)]

\* searchMovieBackup after await fetchText: html is the page, NoBody when
\* fetch threw
searchMovieBackup(html) ==
  IF html.kind = "none" THEN [outcome |-> "fetch_error", r |-> Ok(<<>>)]
  ELSE IF parseHtmlSearchResults(html.data).thrown
       THEN [outcome |-> "mapping_error", r |-> Ok(<<>>)]
       ELSE [outcome |-> "ok", r |-> parseHtmlSearchResults(html.data)]

\* --- inputs -------------------------------------------------------------
Rel(id) == <<"/", "subject", "/", id, "/">>

Item(title, url, id) == [isNull |-> FALSE, title |-> title, url |-> url, id |-> id]
NullItem == [isNull |-> TRUE, title |-> <<>>, url |-> <<>>, id |-> <<>>]

JsonItems ==
  { Item(<<"a", " ", " ", "b">>, Rel("1"), <<"1">>),
    Item(<<"B">>, BASE_URL \o Rel("2"), <<"2">>),
    Item(<<>>, Rel("3"), <<"3">>),
    Item(<<"c">>, <<>>, <<"3">>),
    Item(<<"c">>, <<"/", "celebrity", "/", "5", "/">>, <<"5">>),
    Item(<<"c">>, <<"/", "celebrity", "/", "6", "/">>, <<>>),
    Item(<<"<", "b", ">", "<", "/", "b", ">">>, Rel("3"), <<"3">>),
    NullItem }

SeqsUpTo(S, n) == UNION {[1..k -> S] : k \in 0..n}

NoBody == [kind |-> "none", data |-> <<>>]

JsonBodies ==
  {[kind |-> "invalid", data |-> <<>>], [kind |-> "object", data |-> <<>>]}
    \cup [kind : {"array"}, data : SeqsUpTo(JsonItems, MaxItems)]

Block(url, id, title) == [url |-> url, id |-> <<id>>, title |-> title]

HtmlBlocks ==
  { Block(Rel("1"), "1", <<"a", " ", " ", "b">>),
    Block(BASE_URL \o Rel("2"), "2", <<"B">>),
    Block(Rel("3"), "3", <<" ">>) }

SearchPages == [kind : {"html"}, data : SeqsUpTo(HtmlBlocks, MaxItems)]

Queries == { <<>>, <<" ">>, <<"a">>, <<" ", "a", " ", " ", "b">> }

\* --- the call -----------------------------------------------------------
\* mutant: the backup strategy runs whatever the primary returned
NeedsBackup_Always(list) == TRUE

\* if (results.length === 0)
NeedsBackup(list) == Len(list) = 0

Returned == [kind |-> "returned", type |-> "", status |-> 0]

\* mutant: only the empty string is refused
InvalidName_EmptyOnly(name) == name = <<>>

\* !movieName || movieName.trim().length === 0
InvalidName(name) == name = <<>> \/ Trim(name) = <<>>

searchMovie(name) ==
  /\ spc = "idle"
  /\ fpc = "idle"
  /\ dpc = "idle"
  /\ movieName' = name
  /\ IF InvalidName(name)
     THEN /\ spc' = "done"
          /\ sres' = ErrorOf(INVALID_ARGS)
          /\ UNCHANGED <<fetchVars, clientVars>>
     ELSE \* searchMovieMain: await fetchJson(searchUrl)
          /\ spc' = "main"
          /\ sres' = sres
          /\ FetchBegin([endpoint |-> "suggest",
                         arg |-> cleanWhitespace(Trim(name))])
  /\ UNCHANGED <<results, mainOutcome, backupOutcome,
                 mainBody, backupBody, mainList, backupList, selectVars,
                 detailVars>>
  /\ UNCHANGED idleVars

\* searchMovieMain has returned or thrown m.r: searchMovie tests
\* results.length, then calls searchMovieBackup or returns
AfterMain(m) ==
  /\ mainOutcome' = m.outcome
  /\ mainList' = m.r.value
  /\ IF m.r.thrown
     THEN /\ results' = results
          /\ spc' = "done"
          /\ sres' = ErrorOf(NETWORK_ERROR)
          /\ FetchEnd
     ELSE /\ results' = m.r.value
          /\ IF NeedsBackup(m.r.value)
             THEN \* searchMovieBackup: await fetchText(searchUrl)
                  /\ spc' = "backup"
                  /\ sres' = sres
                  /\ FetchBegin([endpoint |-> "search",
                                 arg |-> cleanWhitespace(Trim(movieName))])
             ELSE /\ spc' = "done"
                  /\ sres' = Returned
                  /\ FetchEnd
  /\ UNCHANGED <<movieName, backupOutcome, backupBody, backupList, selectVars,
                 detailVars>>
  /\ UNCHANGED idleVars

\* the fetch of fetchJson has completed: on a response fetchJson awaits
\* response.json(), on an error searchMovieMain catches it
SearchMainFetched ==
  /\ spc = "main"
  /\ fpc = "done"
  /\ IF fres.kind = "error"
     THEN /\ mainBody' = NoBody
          /\ AfterMain(searchMovieMain(NoBody))
     ELSE /\ spc' = "main_json"
          /\ FetchEnd
          /\ UNCHANGED <<movieName, results, mainOutcome, backupOutcome, mainBody,
                         backupBody, mainList, backupList, sres, selectVars,
                         detailVars>>
  /\ UNCHANGED idleVars

\* response.json() has settled with the payload body
SearchMainSettled(body) ==
  /\ spc = "main_json"
  /\ mainBody' = body
  /\ AfterMain(searchMovieMain(body))
  /\ UNCHANGED idleVars

\* searchMovieBackup has returned or thrown b.r: searchMovie returns results
AfterBackup(b) ==
  /\ backupOutcome' = b.outcome
  /\ backupList' = b.r.value
  /\ IF b.r.thrown
     THEN /\ results' = results
          /\ sres' = ErrorOf(NETWORK_ERROR)
     ELSE /\ results' = b.r.value
          /\ sres' = Returned
  /\ spc' = "done"
  /\ FetchEnd
  /\ UNCHANGED <<movieName, mainOutcome, mainBody, mainList, selectVars,
                 detailVars>>
  /\ UNCHANGED idleVars

\* the fetch of fetchText has completed: on a response fetchText awaits
\* response.text(), on an error searchMovieBackup catches it
SearchBackupFetched ==
  /\ spc = "backup"
  /\ fpc = "done"
  /\ IF fres.kind = "error"
     THEN /\ backupBody' = NoBody
          /\ AfterBackup(searchMovieBackup(NoBody))
     ELSE /\ spc' = "backup_text"
          /\ FetchEnd
          /\ UNCHANGED <<movieName, results, mainOutcome, backupOutcome, mainBody,
                         backupBody, mainList, backupList, sres, selectVars,
                         detailVars>>
  /\ UNCHANGED idleVars

\* response.text() has settled with the page html
SearchBackupSettled(html) ==
  /\ spc = "backup_text"
  /\ backupBody' = html
  /\ AfterBackup(searchMovieBackup(html))
  /\ UNCHANGED idleVars

\* ------------------------------------------------------------------------
\* selectBestMatch (core/search.ts)
\* ------------------------------------------------------------------------
Max(a, b) == IF a >= b THEN a ELSE b
Min3(a, b, c) ==
  IF a <= b /\ a <= c THEN a ELSE IF b <= c THEN b ELSE c

\* matrix[j][i] of levenshteinDistance(str1, str2)
RECURSIVE matrix(_, _, _, _)
matrix(str1, str2, j, i) ==
  IF j = 0 THEN i
  ELSE IF i = 0 THEN j
  ELSE LET indicator == IF str1[i] = str2[j] THEN 0 ELSE 1
       IN  Min3(matrix(str1, str2, j, i - 1) + 1,
                matrix(str1, str2, j - 1, i) + 1,
                matrix(str1, str2, j - 1, i - 1) + indicator)

levenshteinDistance(str1, str2) == matrix(str1, str2, Len(str2), Len(str1))

\* a score is the fraction num/den; the doubles the code computes
\* (1.0, 0.8, 1 - distance / maxLength) compare like these fractions
Score(num, den) == [num |-> num, den |-> den]

\* mutant: containment scores like equality
ContainmentScore_AsExact == Score(1, 1)

\* return 0.8
ContainmentScore == Score(4, 5)

\* mutant: containment is only tested in one direction
calculateSimilarity_OneWay(str1, str2) ==
  IF str1 = str2 THEN Score(1, 1)
  ELSE IF Includes(str1, str2) THEN ContainmentScore
  ELSE LET maxLength == Max(Len(str1), Len(str2))
       IN  IF maxLength = 0 THEN Score(1, 1)
           ELSE Score(maxLength - levenshteinDistance(str1, str2), maxLength)

calculateSimilarity(str1, str2) ==
  IF str1 = str2 THEN Score(1, 1)
  ELSE IF Includes(str1, str2) \/ Includes(str2, str1) THEN ContainmentScore
  ELSE LET maxLength == Max(Len(str1), Len(str2))
       IN  IF maxLength = 0 THEN Score(1, 1)
           ELSE Score(maxLength - levenshteinDistance(str1, str2), maxLength)

\* sign of x - y for two scores
ScoreLess(x, y) == x.num * y.den < y.num * x.den

\* mutant: the strings are scored without toLowerCase
scoredResults_CaseSensitive(list, name) ==
  LET cleanMovieName == cleanWhitespace(name)
  IN  [k \in 1..Len(list) |->
        [result |-> list[k],
         score |-> calculateSimilarity(cleanMovieName,
                     cleanWhitespace(list[k].title))]]

\* results.map(result => ({result, score}))
scoredResults(list, name) ==
  LET cleanMovieName == cleanWhitespace(toLowerCase(name))
  IN  [k \in 1..Len(list) |->
        [result |-> list[k],
         score |-> calculateSimilarity(cleanMovieName,
                     cleanWhitespace(toLowerCase(list[k].title)))]]

\* mutant: an unstable sort that puts a later element before its equals
SortInsert_Unstable(sorted, x) ==
  LET before == {k \in 1..Len(sorted) : ScoreLess(x.score, sorted[k].score)}
      n == Cardinality(before)
  IN  SubSeq(sorted, 1, n) \o <<x>> \o SubSeq(sorted, n + 1, Len(sorted))

\* Array.prototype.sort is stable: with (a, b) => b.score - a.score an
\* element goes after every element whose score is not lower than its own
SortInsert(sorted, x) ==
  LET before == {k \in 1..Len(sorted) : ~ScoreLess(sorted[k].score, x.score)}
      n == Cardinality(before)
  IN  SubSeq(sorted, 1, n) \o <<x>> \o SubSeq(sorted, n + 1, Len(sorted))

\* scoredResults.sort((a, b) => b.score - a.score)
RECURSIVE SortByScore(_)
SortByScore(scored) ==
  IF scored = <<>> THEN <<>>
  ELSE SortInsert(SortByScore(SubSeq(scored, 1, Len(scored) - 1)),
                  scored[Len(scored)])

\* mutant: the caller's array itself is sorted
resultsAfterSort_InPlace(list, name) ==
  [k \in 1..Len(list) |-> SortByScore(scoredResults(list, name))[k].result]

\* the caller's array after scoredResults.sort: map built a new array, the
\* sort reorders that one
resultsAfterSort(list, name) == list

\* mutant: an empty list is reported as a network failure
NoResultsError_AsNetwork == ErrorOf(NETWORK_ERROR)

\* ErrorFactory.createNoResultsError(movieName)
NoResultsError == ErrorOf(NO_RESULTS)

\* mutant: a list of one candidate is refused like the empty list
IsEmpty_AtMostOne(list) == Len(list) <= 1

\* results.length === 0
IsEmpty(list) == Len(list) = 0

selectBestMatch ==
  /\ selres = Pending
  /\ spc = "done"
  /\ sres = Returned
  /\ IF IsEmpty(results)
     THEN /\ selres' = NoResultsError
          /\ bestMatch' = bestMatch
          /\ scores' = scores
          /\ results' = results
     ELSE IF Len(results) = 1
     THEN /\ selres' = Returned
          /\ bestMatch' = results[1]
          /\ scores' = scores
          /\ results' = results
     ELSE /\ selres' = Returned
          /\ scores' = scoredResults(results, movieName)
          /\ bestMatch' = SortByScore(scoredResults(results, movieName))[1].result
          /\ results' = resultsAfterSort(results, movieName)
  /\ UNCHANGED <<spc, movieName, mainOutcome, backupOutcome, mainBody, backupBody,
                 mainList, backupList, sres>>
  /\ UNCHANGED <<fetchVars, detailVars>>
  /\ UNCHANGED appVars

\* --- inputs -------------------------------------------------------------
Titles ==
  { <<"a", "b">>, <<"A", "B">>, <<" ", "a", " ", " ", "b">>, <<"a", "b", "c">>,
    <<"b">>, <<"b", "a", "c">>, <<"c", "b">>, <<"A", " ", "b">>,
    <<"a", "b", "d">>, <<>> }

SelectQueries ==
  { <<"a", "b">>, <<"A", "b", " ">>, <<"a", " ", "b">>, <<"b", "c">>, <<>>,
    <<"a", "b", "c">> }

CandidateIds == <<"1", "2", "3", "5", "6">>

\* the candidate lists a search can hand over: any titles, the id and url
\* of a candidate tell its position
CandidateLists ==
  { [k \in 1..Len(ts) |->
       Candidate(<<CandidateIds[k]>>, AbsoluteUrl(Rel(CandidateIds[k])), ts[k])] :
    ts \in SeqsUpTo(Titles, MaxCands) }

NoCandidate == Candidate(<<>>, <<>>, <<>>)

\* ------------------------------------------------------------------------
\* Detail pages (core/parser.ts)
\* ------------------------------------------------------------------------
\* A page is a sequence of markup fragments [kind, text]:
\*   h1item      <h1><span property="v:itemreviewed">TEXT</span></h1>
\*   h1span      <h1><span>TEXT</span></h1>
\*   title       <title>TEXT</title>
\*   h1          <h1>TEXT</h1>
\*   yearspan    <span class="year">(TEXT)</span>
\*   rdate       <span property="v:initialReleaseDate"
\*                     content="TEXT-11-01">TEXT-11-01</span>
\*   rlabel      <span class="pl">[shang ying ri qi]:</span>
\*   ylabel      <span class="pl">[nian fen]:</span>
\*   paren       <p>(TEXT)</p>
\*   ratingnum   <strong class="ll rating_num" property="v:average">TEXT</strong>
\*   ratingspan  <span property="v:average">TEXT</span>
\*   ratingself  <div class="rating_self"><strong>TEXT</strong></div>
\*   ratinglabel <p>[ping fen] TEXT</p>
\*   nbgnbg      <a class="nbgnbg"><img src="TEXT"></a>
\*   imgrel      <img rel="v:image" src="TEXT">
\*   mainpic     <div id="mainpic"><img src="TEXT"></div>
\*   imgposter   <img class="poster" src="TEXT">
\*   summary     <span property="v:summary">TEXT</span>
\*   report      <div class="indent" id="link-report"><span class="all hidden">TEXT</span></div>
\*   reportspan  <div class="indent" id="link-report"><span>TEXT</span></div>
\*   synlabel    <h2>[ju qing jian jie]</h2><div>TEXT</div>
\*   genre       <span property="v:genre">TEXT</span>
\*   genrelabel  <span class="pl">[lei xing]:</span> <span>TEXT</span>
\*   genrelink   <a class="genre">TEXT</a>
\*   starring    <a rel="v:starring">TEXT</a>
\*   actorspan   <span class="actor"><a>TEXT</a></span>
\*   actorlabel  <span class="pl">[zhu yan]</span>: <a>TEXT</a>
\* A regular expression of the parser is modelled by what it captures on
\* such a page.
Frag(kind, text) == [kind |-> kind, text |-> text]

NoMatch == [m |-> FALSE, g |-> <<>>]
Match(g) == [m |-> TRUE, g |-> g]

Digits == {"0", "1", "2", "5", "6", "7", "8", "9"}

Range(s) == {s[i] : i \in 1..Len(s)}

\* ([^<]+): a non-empty run without "<" that reaches the closing tag
Plain(t) == IF t # <<>> /\ "<" \notin Range(t) THEN Match(t) ELSE NoMatch

SetMin(S) == CHOOSE x \in S : \A y \in S : x <= y

\* capture of the leftmost fragment at or after position i that has one
FirstFrom(page, i, Attr(_)) ==
  LET S == {j \in i..Len(page) : Attr(page[j]).m}
  IN  IF S = {} THEN NoMatch ELSE Attr(page[SetMin(S)])

\* OPEN[\s\S]*?CAPTURE: the leftmost opening markup, then the first capture
\* behind it
Behind(page, Open(_), Attr(_)) ==
  LET S == {i \in 1..Len(page) : Open(page[i])}
  IN  IF S = {} THEN NoMatch ELSE FirstFrom(page, SetMin(S), Attr)

\* --- what the fragments offer to the patterns ---------------------------
\* <h1[^>]*>
HasH1(f) == f.kind \in {"h1item", "h1span", "h1"}

\* <span[^>]*property="v:itemreviewed"[^>]*>([^<]+)<\/span>
ItemReviewedText(f) == IF f.kind = "h1item" THEN Plain(f.text) ELSE NoMatch

\* the content of the first <span ...>...</span> of a fragment
SpanInner(f) ==
  CASE f.kind \in {"h1item", "h1span", "ratingspan", "summary", "report",
                   "reportspan", "genre"} -> Match(f.text)
    [] f.kind = "yearspan" -> Match(<<"(">> \o f.text \o <<")">>)
    [] f.kind = "rdate" -> Match(f.text \o <<"-", "1", "1", "-", "0", "1">>)
    [] f.kind = "rlabel" -> Match(<<"shang", "ying", "ri", "qi", ":">>)
    [] f.kind = "ylabel" -> Match(<<"nian", "fen", ":">>)
    [] f.kind = "genrelabel" -> Match(<<"lei", "xing", ":">>)
    [] f.kind = "actorlabel" -> Match(<<"zhu", "yan">>)
    [] f.kind = "actorspan" -> Match(<<"<", "a", ">">> \o f.text \o <<"<", "/", "a", ">">>)
    [] OTHER -> NoMatch

\* <span[^>]*>([^<]+)<\/span>: the first span of the fragment, when it holds
\* plain text
SpanText(f) ==
  IF SpanInner(f).m THEN Plain(SpanInner(f).g) ELSE NoMatch

\* <title>([^<]+)<\/title>
TitleTagText(f) == IF f.kind = "title" THEN Plain(f.text) ELSE NoMatch

\* <h1[^>]*>([^<]+)<\/h1>
BareH1Text(f) == IF f.kind = "h1" THEN Plain(f.text) ELSE NoMatch

\* the first four digits of a run of digits
RECURSIVE FirstDigits4(_)
FirstDigits4(t) ==
  IF Len(t) < 4 THEN NoMatch
  ELSE IF \A i \in 1..4 : t[i] \in Digits THEN Match(SubSeq(t, 1, 4))
  ELSE FirstDigits4(Tail(t))

\* the text a fragment writes around and with TEXT
FragText(f) ==
  CASE f.kind \in {"yearspan", "paren"} -> <<"(">> \o f.text \o <<")">>
    [] f.kind = "rdate" -> f.text \o <<"-", "1", "1", "-", "0", "1">>
    [] OTHER -> f.text

\* (\d{4}) anywhere in the fragment
Digits4(f) == FirstDigits4(FragText(f))

\* \((\d{4})\): the leftmost four digits between parentheses
FirstParenYear(t) ==
  LET At == {i \in 1..(Len(t) - 5) :
               t[i] = "(" /\ (\A k \in 1..4 : t[i + k] \in Digits) /\ t[i + 5] = ")"}
  IN  IF At = {} THEN NoMatch ELSE Match(SubSeq(t, SetMin(At) + 1, SetMin(At) + 4))

ParenYear(f) == FirstParenYear(FragText(f))

\* <span[^>]*class="year"[^>]*>\((\d{4})\)<\/span>
YearSpan(f) ==
  IF f.kind = "yearspan" /\ Len(f.text) = 4 THEN ParenYear(f) ELSE NoMatch

\* <span[^>]*property="v:initialReleaseDate"[^>]*content="(\d{4})[^"]*"[^>]*>
ReleaseDate(f) ==
  IF f.kind = "rdate" /\ Len(f.text) >= 4 /\ (\A i \in 1..4 : f.text[i] \in Digits)
  THEN Match(SubSeq(f.text, 1, 4)) ELSE NoMatch

IsReleaseLabel(f) == f.kind = "rlabel"
IsYearLabel(f) == f.kind = "ylabel"

\* the digits of the run that starts s
RECURSIVE DigitRun(_)
DigitRun(s) ==
  IF s # <<>> /\ Head(s) \in Digits THEN <<Head(s)>> \o DigitRun(Tail(s)) ELSE <<>>

\* (\d+\.\d+): the leftmost decimal number of s
RECURSIVE FirstDecimal(_)
FirstDecimal(s) ==
  IF s = <<>> THEN NoMatch
  ELSE LET int == DigitRun(s)
           rest == SubSeq(s, Len(int) + 1, Len(s))
           frac == IF rest # <<>> /\ Head(rest) = "." THEN DigitRun(Tail(rest)) ELSE <<>>
       IN  IF int # <<>> /\ frac # <<>> THEN Match(int \o <<".">> \o frac)
           ELSE IF int # <<>> THEN FirstDecimal(rest)
           ELSE FirstDecimal(Tail(s))

\* <strong[^>]*class="[^"]*rating_num[^"]*"[^>]*property="v:average"[^>]*>([^<]+)<\/strong>
RatingNum(f) == IF f.kind = "ratingnum" THEN Plain(f.text) ELSE NoMatch

\* <span[^>]*property="v:average"[^>]*>([^<]+)<\/span>
RatingSpan(f) == IF f.kind = "ratingspan" THEN Plain(f.text) ELSE NoMatch

\* <div[^>]*class="rating_self"[^>]*>
IsRatingSelf(f) == f.kind = "ratingself"

\* <strong[^>]*>([^<]+)<\/strong>
StrongText(f) ==
  IF f.kind \in {"ratingnum", "ratingself"} THEN Plain(f.text) ELSE NoMatch

IsRatingLabel(f) == f.kind = "ratinglabel"

\* (\d+\.\d+) anywhere in the fragment
Decimal(f) == FirstDecimal(FragText(f))

\* --- scalar fields: ordered rule lists ------------------------------------
UnknownTitle == <<"wei", "zhi", "dian", "ying">>
UnknownYear == <<"wei", "zhi">>
NoRating == <<"zan", "wu", "ping", "fen">>
NoPoster == <<"zan", "wu", "feng", "mian">>
NoSummary == <<"zan", "wu", "jian", "jie">>
UnknownGenre == <<"wei", "zhi", "lei", "xing">>
UnknownActor == <<"wei", "zhi", "yan", "yuan">>

EndsWith(s, suf) ==
  Len(s) >= Len(suf) /\ SubSeq(s, Len(s) - Len(suf) + 1, Len(s)) = suf

DropEnd(s, n) == SubSeq(s, 1, Len(s) - n)

DoubanSuffix == <<"(", "dou", "ban", ")">>
DoubanMovieSuffix == <<"dou", "ban", "dian", "ying">>

\* title.replace(/\s*\([dou ban]\)$/, '')
StripDoubanSuffix(t) ==
  IF EndsWith(t, DoubanSuffix) THEN TrimEnd(DropEnd(t, Len(DoubanSuffix))) ELSE t

\* title.replace(/\s*-\s*[dou ban dian ying]$/, '')
StripDoubanMovieSuffix(t) ==
  IF EndsWith(t, DoubanMovieSuffix)
  THEN LET p == TrimEnd(DropEnd(t, Len(DoubanMovieSuffix)))
       IN  IF EndsWith(p, <<"-">>) THEN TrimEnd(DropEnd(p, 1)) ELSE t
  ELSE t

\* titlePatterns[k - 1] applied to the page
TitleCapture(html, k) ==
  CASE k = 1 -> Behind(html, HasH1, ItemReviewedText)
    [] k = 2 -> Behind(html, HasH1, SpanText)
    [] k = 3 -> FirstFrom(html, 1, TitleTagText)
    [] k = 4 -> FirstFrom(html, 1, BareH1Text)

\* the body of parseTitle's loop for one match
TitleAccept(g) ==
  LET title == StripDoubanMovieSuffix(StripDoubanSuffix(Trim(stripHtml(g))))
  IN  IF Len(title) > 0 THEN Match(cleanWhitespace(title)) ELSE NoMatch

\* mutant: the year patterns with the release-date attribute tried first
YearCapture_ReleaseDateFirst(html, k) ==
  CASE k = 1 -> FirstFrom(html, 1, ReleaseDate)
    [] k = 2 -> FirstFrom(html, 1, YearSpan)
    [] k = 3 -> Behind(html, IsReleaseLabel, Digits4)
    [] k = 4 -> Behind(html, IsYearLabel, Digits4)
    [] k = 5 -> FirstFrom(html, 1, ParenYear)

\* yearPatterns[k - 1] applied to the page
YearCapture(html, k) ==
  CASE k = 1 -> FirstFrom(html, 1, YearSpan)
    [] k = 2 -> FirstFrom(html, 1, ReleaseDate)
    [] k = 3 -> Behind(html, IsReleaseLabel, Digits4)
    [] k = 4 -> Behind(html, IsYearLabel, Digits4)
    [] k = 5 -> FirstFrom(html, 1, ParenYear)

\* /^\d{4}$/.test(year)
YearAccept(g) ==
  IF Len(g) = 4 /\ (\A i \in 1..4 : g[i] \in Digits) THEN Match(g) ELSE NoMatch

\* ratingPatterns[k - 1] applied to the page
RatingCapture(html, k) ==
  CASE k = 1 -> FirstFrom(html, 1, RatingNum)
    [] k = 2 -> FirstFrom(html, 1, RatingSpan)
    [] k = 3 -> Behind(html, IsRatingSelf, StrongText)
    [] k = 4 -> Behind(html, IsRatingLabel, Decimal)

\* REGEX_PATTERNS.RATING.test(rating), RATING = /(\d+\.\d+)/
RatingAccept(g) ==
  LET rating == Trim(g)
  IN  IF FirstDecimal(rating).m THEN Match(rating) ELSE NoMatch

\* <img[^>]*src="([^"]+)"
ImgSrc(f) ==
  IF f.kind \in {"nbgnbg", "imgrel", "mainpic", "imgposter"} /\ f.text # <<>>
  THEN Match(f.text) ELSE NoMatch

ImgRelSrc(f) == IF f.kind = "imgrel" THEN ImgSrc(f) ELSE NoMatch
ImgPosterSrc(f) == IF f.kind = "imgposter" THEN ImgSrc(f) ELSE NoMatch
IsNbg(f) == f.kind = "nbgnbg"
IsMainpic(f) == f.kind = "mainpic"

\* posterPatterns[k - 1] applied to the page
PosterCapture(html, k) ==
  CASE k = 1 -> Behind(html, IsNbg, ImgSrc)
    [] k = 2 -> FirstFrom(html, 1, ImgRelSrc)
    [] k = 3 -> Behind(html, IsMainpic, ImgSrc)
    [] k = 4 -> FirstFrom(html, 1, ImgPosterSrc)

\* posterUrl.replace(REGEX_PATTERNS.IMAGE_URL_CLEAN, ''), /\?.*$/
RECURSIVE CutQuery(_)
CutQuery(u) ==
  IF u = <<>> \/ Head(u) = "?" THEN <<>> ELSE <<Head(u)>> \o CutQuery(Tail(u))

\* the body of parsePoster's loop for one match
PosterAccept(g) ==
  LET cut == CutQuery(Trim(g))
      posterUrl == IF StartsWith(cut, <<"/", "/">>)
                   THEN <<"h", "t", "t", "p", "s", ":">> \o cut
                   ELSE IF StartsWith(cut, <<"/">>) THEN BASE_URL \o cut
                   ELSE cut
  IN  IF StartsWith(posterUrl, Http) THEN Match(posterUrl) ELSE NoMatch

SummarySpan(f) == IF f.kind = "summary" THEN Match(f.text) ELSE NoMatch
HiddenSpan(f) == IF f.kind = "report" THEN Match(f.text) ELSE NoMatch
IsReport(f) == f.kind \in {"report", "reportspan"}
IsSynLabel(f) == f.kind = "synlabel"

\* <div[^>]*>([\s\S]*?)<\/div>: the content of the first div of a fragment
DivInner(f) ==
  CASE f.kind = "synlabel" -> Match(f.text)
    [] f.kind = "ratingself" ->
         Match(<<"<", "strong", ">">> \o f.text \o <<"<", "/", "strong", ">">>)
    [] f.kind = "mainpic" -> Match(<<"<", "img", ">">>)
    [] f.kind \in {"report", "reportspan"} ->
         Match(<<"<", "span", ">">> \o f.text \o <<"<", "/", "span", ">">>)
    [] OTHER -> NoMatch

\* summaryPatterns[k - 1] applied to the page
SummaryCapture(html, k) ==
  CASE k = 1 -> FirstFrom(html, 1, SummarySpan)
    [] k = 2 -> Behind(html, IsReport, HiddenSpan)
    [] k = 3 -> Behind(html, IsReport, SpanInner)
    [] k = 4 -> Behind(html, IsSynLabel, DivInner)

\* mutant: the suffix is appended to maxLength characters of the text
truncate_NoRoomForSuffix(text, maxLength) ==
  IF Len(text) <= maxLength THEN text
  ELSE SubSeq(text, 1, maxLength) \o <<".", ".", ".">>

\* StringUtils.truncate(text, maxLength, suffix = '...')
truncate(text, maxLength) ==
  IF Len(text) <= maxLength THEN text
  ELSE SubSeq(text, 1, maxLength - 3) \o <<".", ".", ".">>

CopyrightPrefix == <<"(c)", "dou", "ban">>
ExpandSuffix == <<"(", "zhan", "kai", "quan", "bu", ")">>
ShowAllSuffix == <<"xian", "shi", "quan", "bu">>

\* summary.replace(/^\s*(c)[dou ban]/, '')
StripCopyright(t) ==
  IF StartsWith(TrimStart(t), CopyrightPrefix)
  THEN SubSeq(TrimStart(t), Len(CopyrightPrefix) + 1, Len(TrimStart(t)))
  ELSE t

\* summary.replace(/\s*SUFFIX\s*$/, '')
StripSuffix(t, suf) ==
  IF EndsWith(TrimEnd(t), suf) THEN TrimEnd(DropEnd(TrimEnd(t), Len(suf))) ELSE t

MinSummaryLength == 10
MaxSummaryLength == 500

\* stripHtml, cleanWhitespace and the three replace calls of parseSummary
SummaryClean(g) ==
  StripSuffix(StripSuffix(StripCopyright(cleanWhitespace(stripHtml(g))),
                          ExpandSuffix), ShowAllSuffix)

\* the body of parseSummary's loop for one match
SummaryAccept(g) ==
  LET summary == SummaryClean(g)
  IN  IF Len(summary) > MinSummaryLength
      THEN Match(truncate(summary, MaxSummaryLength)) ELSE NoMatch

ScalarFields == {"title", "year", "rating", "poster", "summary"}

RuleCount(field) ==
  CASE field = "title" -> 4
    [] field = "year" -> 5
    [] field = "rating" -> 4
    [] field = "poster" -> 4
    [] field = "summary" -> 4

Sentinel(field) ==
  CASE field = "title" -> UnknownTitle
    [] field = "year" -> UnknownYear
    [] field = "rating" -> NoRating
    [] field = "poster" -> NoPoster
    [] field = "summary" -> NoSummary

Capture(field, html, k) ==
  CASE field = "title" -> TitleCapture(html, k)
    [] field = "year" -> YearCapture(html, k)
    [] field = "rating" -> RatingCapture(html, k)
    [] field = "poster" -> PosterCapture(html, k)
    [] field = "summary" -> SummaryCapture(html, k)

Accept(field, g) ==
  CASE field = "title" -> TitleAccept(g)
    [] field = "year" -> YearAccept(g)
    [] field = "rating" -> RatingAccept(g)
    [] field = "poster" -> PosterAccept(g)
    [] field = "summary" -> SummaryAccept(g)

\* one pass of a field's loop: if (match && match[1]) { ... }
RuleOutput(field, html, k) ==
  LET match == Capture(field, html, k)
  IN  IF match.m /\ match.g # <<>> THEN Accept(field, match.g) ELSE NoMatch

\* for (const pattern of patterns) { ... return value } return sentinel
RECURSIVE TryRules(_, _, _)
TryRules(field, html, k) ==
  IF k > RuleCount(field) THEN Sentinel(field)
  ELSE IF RuleOutput(field, html, k).m THEN RuleOutput(field, html, k).g
  ELSE TryRules(field, html, k + 1)

parseTitle(html) == TryRules("title", html, 1)

\* mutant: the loop of parseYear starts at its second pattern
parseYear_SkipFirst(html) == TryRules("year", html, 2)

parseYear(html) == TryRules("year", html, 1)
parseRating(html) == TryRules("rating", html, 1)
parsePoster(html) == TryRules("poster", html, 1)
parseSummary(html) == TryRules("summary", html, 1)

\* --- list fields: the first pattern with a match gives the list ----------
GenreSpan(f) == IF f.kind = "genre" THEN Plain(f.text) ELSE NoMatch
GenreAttr(f) == IF f.kind \in {"genre", "genrelink"} THEN Plain(f.text) ELSE NoMatch
Starring(f) == IF f.kind = "starring" THEN Plain(f.text) ELSE NoMatch

\* <a[^>]*>([^<]+)<\/a>
AnchorText(f) ==
  IF f.kind \in {"starring", "actorspan", "actorlabel", "genrelink"}
  THEN Plain(f.text) ELSE NoMatch

\* every match of a pattern that captures inside one fragment
RECURSIVE EachOf(_, _)
EachOf(html, kinds) ==
  IF html = <<>> THEN <<>>
  ELSE (IF Head(html).kind \in kinds /\ Plain(Head(html).text).m
        THEN <<Head(html).text>> ELSE <<>>) \o EachOf(Tail(html), kinds)

\* /[lei xing][^>]*>[\s\S]*?<span[^>]*>([^<]+)<\/span>/g from position pos:
\* a label, then its own span or else the first plain span behind it
RECURSIVE GenreLabelMatches(_, _)
GenreLabelMatches(html, pos) ==
  LET S == {i \in pos..Len(html) : html[i].kind = "genrelabel"}
  IN  IF S = {} THEN <<>>
      ELSE LET i == SetMin(S)
               T == {j \in (i + 1)..Len(html) : SpanText(html[j]).m}
           IN  IF Plain(html[i].text).m
               THEN <<html[i].text>> \o GenreLabelMatches(html, i + 1)
               ELSE IF T = {} THEN <<>>
               ELSE <<SpanText(html[SetMin(T)]).g>>
                      \o GenreLabelMatches(html, SetMin(T) + 1)

\* /OPEN[\s\S]*?<a[^>]*>([^<]+)<\/a>/g from position pos, OPEN being the
\* opening markup of the fragments of kind open
RECURSIVE AnchorMatches(_, _, _)
AnchorMatches(html, open, pos) ==
  LET S == {i \in pos..Len(html) : html[i].kind = open}
  IN  IF S = {} THEN <<>>
      ELSE LET T == {j \in SetMin(S)..Len(html) : AnchorText(html[j]).m}
           IN  IF T = {} THEN <<>>
               ELSE <<AnchorText(html[SetMin(T)]).g>>
                      \o AnchorMatches(html, open, SetMin(T) + 1)

\* the matches of genrePatterns[k - 1] / actorPatterns[k - 1], in page order
ListMatches(field, html, k) ==
  CASE field = "genres" /\ k = 1 -> EachOf(html, {"genre"})
    [] field = "genres" /\ k = 2 -> GenreLabelMatches(html, 1)
    [] field = "genres" /\ k = 3 -> EachOf(html, {"genre", "genrelink"})
    [] field = "actors" /\ k = 1 -> EachOf(html, {"starring"})
    [] field = "actors" /\ k = 2 -> AnchorMatches(html, "actorspan", 1)
    [] field = "actors" /\ k = 3 -> AnchorMatches(html, "actorlabel", 1)

\* mutant: every non-empty capture is pushed
IsNew_NoDedup(acc, v) == v # <<>>

\* genre && !genres.includes(genre)
IsNew(acc, v) == v # <<>> /\ v \notin Range(acc)

\* the while loop: push every new non-empty stripped and trimmed capture
RECURSIVE AddUnique(_, _)
AddUnique(acc, caps) ==
  IF caps = <<>> THEN acc
  ELSE LET v == Trim(stripHtml(Head(caps)))
       IN  AddUnique(IF IsNew(acc, v) THEN Append(acc, v) ELSE acc, Tail(caps))

ListSentinel(field) ==
  IF field = "genres" THEN <<UnknownGenre>> ELSE <<UnknownActor>>

\* for (const pattern of patterns) { ...; if (list.length > 0) break; }
RECURSIVE TryListRules(_, _, _)
TryListRules(field, html, k) ==
  IF k > 3 THEN ListSentinel(field)
  ELSE IF Len(AddUnique(<<>>, ListMatches(field, html, k))) > 0
  THEN AddUnique(<<>>, ListMatches(field, html, k))
  ELSE TryListRules(field, html, k + 1)

parseGenres(html) == TryListRules("genres", html, 1)
parseActors(html) == TryListRules("actors", html, 1)

\* --- getMovieInfo ---------------------------------------------------------
\* if (!movieInfo.title)
TitleMissing(title) == title = <<>>

parseMovieInfo(html) ==
  LET info == [title |-> parseTitle(html),
               year |-> parseYear(html),
               rating |-> parseRating(html),
               genres |-> parseGenres(html),
               actors |-> parseActors(html),
               poster |-> parsePoster(html),
               summary |-> parseSummary(html)]
  IN  IF TitleMissing(info.title) THEN Thrown(PARSE_ERROR) ELSE Ok(info)

NoInfo == [title |-> <<>>, year |-> <<>>, rating |-> <<>>, genres |-> <<>>,
           actors |-> <<>>, poster |-> <<>>, summary |-> <<>>]

getMovieInfo(url) ==
  /\ dpc = "idle"
  /\ fpc = "idle"
  /\ movieUrl' = url
  /\ IF url = <<>>
     THEN /\ dpc' = "done"
          /\ dres' = ErrorOf(INVALID_ARGS)
          /\ UNCHANGED <<fetchVars, clientVars>>
     ELSE \* await fetchText(movieUrl)
          /\ dpc' = "fetch"
          /\ dres' = dres
          /\ FetchBegin([endpoint |-> "detail", arg |-> url])
  /\ UNCHANGED <<detailBody, movieInfo, searchVars, selectVars>>
  /\ UNCHANGED idleVars

\* the catch of getMovieInfo wraps whatever was thrown in a ParseError
DetailFetchError == ErrorOf(PARSE_ERROR)

\* the fetch of fetchText has completed: on a response fetchText awaits
\* response.text(), on an error getMovieInfo catches it
DetailFetched ==
  /\ dpc = "fetch"
  /\ fpc = "done"
  /\ IF fres.kind = "error"
     THEN /\ dpc' = "done"
          /\ dres' = DetailFetchError
     ELSE /\ dpc' = "text"
          /\ dres' = dres
  /\ FetchEnd
  /\ UNCHANGED <<movieUrl, detailBody, movieInfo, searchVars, selectVars>>
  /\ UNCHANGED idleVars

\* response.text() has settled with the page: parseMovieInfo runs,
\* getMovieInfo returns or throws
DetailSettled(page) ==
  /\ dpc = "text"
  /\ detailBody' = page
  /\ IF parseMovieInfo(page.data).thrown
     THEN /\ dres' = ErrorOf(PARSE_ERROR)
          /\ movieInfo' = movieInfo
     ELSE /\ dres' = Returned
          /\ movieInfo' = parseMovieInfo(page.data).value
  /\ dpc' = "done"
  /\ UNCHANGED <<movieUrl, fetchVars, searchVars, selectVars>>
  /\ UNCHANGED appVars

\* --- inputs -------------------------------------------------------------
DetailFrags ==
  { Frag("h1item", <<"A">>),
    Frag("h1item", <<" ">>),
    Frag("title", <<"C", " ", "(", "dou", "ban", ")">>),
    Frag("h1", <<"D">>),
    Frag("yearspan", <<"2", "0", "1", "9">>),
    Frag("rdate", <<"2", "0", "2", "0">>),
    Frag("rlabel", <<>>),
    Frag("paren", <<"2", "0", "2", "1">>),
    Frag("ratingnum", <<"N", "A">>),
    Frag("ratingnum", <<" ", "8", ".", "9">>),
    Frag("ratingspan", <<"7", ".", "5">>),
    Frag("ratingspan", <<"7", ".", "5", "fen">>),
    Frag("ratingself", <<"6", ".", "0">>),
    Frag("ratinglabel", <<"5", ".", "5">>),
    Frag("nbgnbg", <<"h", "t", "t", "p", "s", ":", "/", "/", "img1", "/", "p1.jpg", "?", "v=1">>),
    Frag("imgrel", <<"/", "/", "img2", "/", "p2.jpg">>),
    Frag("imgposter", <<"d", "a", "t", "a", ":", "x">>),
    Frag("summary", <<"a", " ", "s", "t", "o", "r", "y", " ", "o", "f", " ", "A">>),
    Frag("summary", <<"t", "o", "o", " ", "s", "h", "o", "r", "t">>),
    Frag("report", <<"t", "h", "e", " ", "f", "u", "l", "l", " ", "t", "e", "x", "t">>) }

DetailPages == [kind : {"html"}, data : SeqsUpTo(DetailFrags, MaxFrags)]

\* pages of genre and cast markup
ListFrags ==
  { Frag("genre", <<"X">>),
    Frag("genre", <<" ", "Y">>),
    Frag("genre", <<" ">>),
    Frag("genrelabel", <<"Z">>),
    Frag("genrelink", <<"L">>),
    Frag("genrelink", <<"M">>),
    Frag("starring", <<"P">>),
    Frag("starring", <<"Q", " ">>),
    Frag("actorspan", <<"R">>),
    Frag("actorspan", <<"Q">>),
    Frag("actorlabel", <<"P">>),
    Frag("h1item", <<"A">>) }

ListPages == [kind : {"html"}, data : SeqsUpTo(ListFrags, MaxFrags)]

\* a text of n characters c
TextOf(n, c) == [i \in 1..n |-> c]

\* pages of summary markup, with texts around the two length limits
SummaryFrags ==
  { Frag("summary", TextOf(MinSummaryLength, "s")),
    Frag("summary", <<" ">> \o TextOf(MinSummaryLength + 1, "t") \o <<" ">>),
    Frag("report", TextOf(MaxSummaryLength, "u")),
    Frag("report", TextOf(MaxSummaryLength + 1, "v")),
    Frag("reportspan", TextOf(MinSummaryLength - 1, "w") \o ExpandSuffix),
    Frag("synlabel", TextOf(MaxSummaryLength + 1, "x") \o <<" ">> \o ShowAllSuffix) }

SummaryPages == [kind : {"html"}, data : SeqsUpTo(SummaryFrags, MaxFrags)]

DetailUrls == { <<>>, BASE_URL \o Rel("1") }

\* ------------------------------------------------------------------------
\* validateMovieInfo and cleanMovieInfo
\* ------------------------------------------------------------------------
MaxListLen == 2

requiredFields == {"title", "year", "rating", "genres", "actors", "poster", "summary"}

\* validateMovieInfo: every required field is present; the model's records
\* hold strings in the string fields and lists in the list fields
validateMovieInfo(r) == \A field \in requiredFields : field \in DOMAIN r

NonEmpty(g) == Len(g) > 0

\* mutant: empty elements are dropped before the elements are cleaned
CleanList_FilterFirst(list) ==
  LET kept == SelectSeq(list, NonEmpty)
  IN  [i \in 1..Len(kept) |-> cleanWhitespace(kept[i])]

\* list.map(x => StringUtils.cleanWhitespace(x)).filter(x => x.length > 0)
CleanList(list) ==
  SelectSeq([i \in 1..Len(list) |-> cleanWhitespace(list[i])], NonEmpty)

\* mutant: the year is copied as it is
cleanMovieInfo_YearKept(r) ==
  [title |-> cleanWhitespace(r.title),
   year |-> r.year,
   rating |-> Trim(r.rating),
   genres |-> CleanList(r.genres),
   actors |-> CleanList(r.actors),
   poster |-> Trim(r.poster),
   summary |-> cleanWhitespace(r.summary)]

cleanMovieInfo(r) ==
  [title |-> cleanWhitespace(r.title),
   year |-> Trim(r.year),
   rating |-> Trim(r.rating),
   genres |-> CleanList(r.genres),
   actors |-> CleanList(r.actors),
   poster |-> Trim(r.poster),
   summary |-> cleanWhitespace(r.summary)]

\* texts with whitespace at the ends and in runs
RawTexts == { <<"a">>, <<" ", "a", " ", "\t", "b", " ">> }
RawElements == { <<" ">>, <<" ", "a", "\t", " ", "b">> }

Records ==
  [title : RawTexts, year : RawTexts, rating : RawTexts, poster : RawTexts,
   summary : RawTexts, genres : SeqsUpTo(RawElements, MaxListLen),
   actors : SeqsUpTo(RawElements, MaxListLen)]

Without(r, field) == [f \in DOMAIN r \ {field} |-> r[f]]

\* records of which validateMovieInfo finds a field missing
PartialRecords ==
  { Without(r, field) : r \in {x \in Records : x.genres = <<>> /\ x.actors = <<>>},
                        field \in {"title", "genres"} }

\* the record cleanMovieInfo is called with next
Current == IF cleaned = <<>> THEN rawInfo ELSE cleaned[Len(cleaned)]

\* r = cleanMovieInfo(r), for a record that passed validateMovieInfo
CleanCall ==
  /\ validateMovieInfo(rawInfo)
  /\ Len(cleaned) < 2
  /\ cleaned' = Append(cleaned, cleanMovieInfo(Current))
  /\ UNCHANGED <<rawInfo, fetchVars, searchVars, selectVars, detailVars, clientVars,
                 apiVars, mwVars>>

\* ------------------------------------------------------------------------
\* POST /api/search (server/handlers.ts)
\* ------------------------------------------------------------------------
\* ErrorHandler.getHttpStatusCode
getHttpStatusCode(type) ==
  CASE type = NO_RESULTS -> 404
    [] type = INVALID_ARGS -> 400
    [] type = NETWORK_ERROR -> 503
    [] type = PARSE_ERROR -> 502
    [] OTHER -> 500

ResponseWith(status) == [status |-> status]

\* no Response has been returned yet
NoResponse == ResponseWith(0)

\* the catch of handleMovieSearchApi answering a DoubanScraperError
Answer(type) == ResponseWith(getHttpStatusCode(type))

\* handleMovieSearchApi up to the first await of handleMovieSearch: the
\* method test, the movieName test, then searchMovie is called
handleMovieSearchApi(method, name) ==
  /\ apiResponse = NoResponse
  /\ spc = "idle"
  /\ dpc = "idle"
  /\ fpc = "idle"
  /\ IF method # "POST"
     THEN /\ apiResponse' = ResponseWith(405)
          /\ UNCHANGED <<fetchVars, searchVars, selectVars, detailVars, cleanVars,
                         clientVars, mwVars>>
     ELSE IF name = <<>>
     THEN /\ apiResponse' = ResponseWith(400)
          /\ UNCHANGED <<fetchVars, searchVars, selectVars, detailVars, cleanVars,
                         clientVars, mwVars>>
     ELSE searchMovie(name)

\* handleMovieSearch after await searchMovie: a thrown error reaches the
\* catch of handleMovieSearchApi, an empty list throws NoResults, otherwise
\* selectBestMatch is called
AfterSearchMovie ==
  /\ apiResponse = NoResponse
  /\ spc = "done"
  /\ selres = Pending
  /\ IF sres.kind = "error"
     THEN /\ apiResponse' = Answer(sres.type)
          /\ UNCHANGED <<fetchVars, searchVars, selectVars, detailVars, cleanVars,
                         clientVars, mwVars>>
     ELSE IF Len(results) = 0
     THEN /\ apiResponse' = Answer(NO_RESULTS)
          /\ UNCHANGED <<fetchVars, searchVars, selectVars, detailVars, cleanVars,
                         clientVars, mwVars>>
     ELSE selectBestMatch

\* mutant: the detail page of the first search result is requested
DetailTarget_FirstResult == results[1].url

\* the argument of getMovieInfo: bestMatch.url
DetailTarget == bestMatch.url

\* handleMovieSearch calls getMovieInfo with the selected candidate
CallGetMovieInfo ==
  /\ apiResponse = NoResponse
  /\ spc = "done"
  /\ selres = Returned
  /\ getMovieInfo(DetailTarget)

\* handleMovieSearch after await getMovieInfo: the record is answered with
\* 200, a thrown error with its status
AfterGetMovieInfo ==
  /\ apiResponse = NoResponse
  /\ selres = Returned
  /\ dpc = "done"
  /\ apiResponse' = IF dres = Returned THEN ResponseWith(200) ELSE Answer(dres.type)
  /\ UNCHANGED <<fetchVars, searchVars, selectVars, detailVars, cleanVars, clientVars,
                 mwVars>>

ApiMethods == {"POST", "GET"}
ApiNames == { <<>>, <<" ">>, <<" ", "a", " ", " ", "b">> }
ApiBodies ==
  { [kind |-> "invalid", data |-> <<>>],
    [kind |-> "array", data |-> <<>>],
    [kind |-> "array", data |-> <<Item(<<"B">>, BASE_URL \o Rel("2"), <<"2">>)>>],
    [kind |-> "array", data |-> <<Item(<<"B">>, BASE_URL \o Rel("2"), <<"2">>),
                                  Item(<<"a", " ", " ", "b">>, Rel("1"), <<"1">>)>>] }
ApiSearchPages ==
  { [kind |-> "html", data |-> <<>>],
    [kind |-> "html", data |-> <<Block(Rel("1"), "1", <<"a", " ", " ", "b">>)>>] }
ApiPages == [kind : {"html"}, data : SeqsUpTo(DetailFrags, 1)]

\* ------------------------------------------------------------------------
\* Middleware (server/middleware)
\* ------------------------------------------------------------------------
UNKNOWN_ERROR == "UNKNOWN_ERROR"

\* createDefaultMiddleware: the order given to combineMiddlewares
createDefaultMiddleware == <<"logging", "cors", "security", "validation", "error">>

\* const maxSize = 1024 * 1024
maxSize == 1048576

\* no content-length header
NoLength == -1

allowedMethods == {"GET", "POST", "OPTIONS"}

\* the tests of validationMiddleware that throw
ValidationThrows(request) ==
  \/ request.method \notin allowedMethods
  \/ request.method = "POST" /\ request.contentType \notin {"", "application/json"}
  \/ request.contentLength # NoLength /\ request.contentLength > maxSize

\* handleError: the error answered with its status
handleError(error) == ResponseOf(getHttpStatusCode(error.type))

\* dispatch: the next middleware is called and runs up to its await next(),
\* to its return or to its throw
Dispatch ==
  /\ settled = Pending
  /\ index < Len(createDefaultMiddleware)
  /\ index' = index + 1
  /\ LET middleware == createDefaultMiddleware[index + 1]
     IN  IF middleware = "cors" /\ mwRequest.method = "OPTIONS"
         THEN \* return createPreflightResponse()
              /\ settled' = ResponseOf(200)
              /\ awaiting' = awaiting
         ELSE IF middleware = "validation" /\ ValidationThrows(mwRequest)
         THEN \* throw ErrorHandler.handle(new Error(...))
              /\ settled' = ErrorOf(UNKNOWN_ERROR)
              /\ awaiting' = awaiting
         ELSE /\ settled' = settled
              /\ awaiting' = Append(awaiting, middleware)
  /\ UNCHANGED <<mwRequest, fetchVars, searchVars, selectVars, detailVars, cleanVars,
                 apiVars, clientVars>>

\* dispatch past the last middleware: next() is the route handler, which
\* returns a Response or throws
CallHandler(outcome) ==
  /\ settled = Pending
  /\ index = Len(createDefaultMiddleware)
  /\ settled' = outcome
  /\ UNCHANGED <<mwRequest, index, awaiting, fetchVars, searchVars, selectVars,
                 detailVars, cleanVars, apiVars, clientVars>>

\* the await next() of the innermost waiting middleware resumes:
\* errorMiddleware answers a thrown error, loggingMiddleware rethrows it, the
\* others let it pass; a Response is returned with its status
Resume ==
  /\ settled # Pending
  /\ awaiting # <<>>
  /\ awaiting' = SubSeq(awaiting, 1, Len(awaiting) - 1)
  /\ settled' = IF awaiting[Len(awaiting)] = "error" /\ settled.kind = "error"
                THEN handleError(settled)
                ELSE settled
  /\ UNCHANGED <<mwRequest, index, fetchVars, searchVars, selectVars, detailVars,
                 cleanVars, apiVars, clientVars>>

Requests ==
  [method : {"GET", "POST", "OPTIONS", "PUT"},
   contentType : {"", "application/json", "text/plain"},
   contentLength : {NoLength, maxSize, maxSize + 1}]

HandlerOutcomes ==
  {ResponseOf(200), ResponseOf(404), ErrorOf(NETWORK_ERROR), ErrorOf(RAW_ERROR)}

\* ------------------------------------------------------------------------
\* Specifications
\* ------------------------------------------------------------------------
InitSearchVars ==
  /\ spc = "idle"
  /\ movieName = <<>>
  /\ results = <<>>
  /\ mainOutcome = "none"
  /\ backupOutcome = "none"
  /\ mainBody = NoBody
  /\ backupBody = NoBody
  /\ mainList = <<>>
  /\ backupList = <<>>
  /\ sres = Pending

InitFetchVars ==
  /\ fpc = "idle"
  /\ attempt = 0
  /\ reqUrl = NoUrl
  /\ attemptLog = <<>>
  /\ delayLog = <<>>
  /\ fres = Pending

InitSelectVars ==
  /\ bestMatch = NoCandidate
  /\ selres = Pending
  /\ scores = <<>>

InitDetailVars ==
  /\ dpc = "idle"
  /\ movieUrl = <<>>
  /\ detailBody = NoBody
  /\ movieInfo = NoInfo
  /\ dres = Pending

InitCleanVars ==
  /\ rawInfo = [title |-> <<>>]
  /\ cleaned = <<>>

\* the client as its constructor leaves it, no fetch running
InitRequestVars ==
  /\ timeout = DEFAULT_TIMEOUT
  /\ userAgent = USER_AGENT
  /\ requestOptions = NoOptions
  /\ callConfig = NoConfig
  /\ timeoutLog = <<>>

\* httpClient = new HttpClient()
InitClientVars == InitRequestVars /\ retriesGiven = Constructed(NotGiven)

InitApiVars == apiResponse = NoResponse

NoRequest == [method |-> "", contentType |-> "", contentLength |-> NoLength]

InitMwVars ==
  /\ mwRequest = NoRequest
  /\ index = 0
  /\ awaiting = <<>>
  /\ settled = Pending

InitIdleVars == InitCleanVars /\ InitApiVars /\ InitMwVars

InitAppVars == InitIdleVars /\ InitClientVars

\* one HttpClient, constructed with or without a retries option
InitFetch ==
  /\ \E r \in {NotGiven} \cup 0..MaxRetriesOpt :
       maxRetries = HttpClientNew(r) /\ retriesGiven = Constructed(r)
  /\ InitFetchVars
  /\ InitSearchVars
  /\ InitSelectVars
  /\ InitDetailVars
  /\ InitIdleVars
  /\ InitRequestVars

NextFetch ==
  \/ fpc = "idle" /\ \E r \in 0..MaxRetriesOpt : setMaxRetries(r)
  \/ \E u \in Urls : FetchCall(u)
  \/ FetchSend
  \/ \E o \in NetOutcomes : FetchSettle(o)
  \/ FetchDelayElapsed

SpecFetch == InitFetch /\ [][NextFetch]_vars

\* the exported httpClient used by a fetch while other callers reconfigure it
\* during the awaits of the call
OtherAgent == "other"
Awaiting == fpc \in {"inflight", "delay"}

NextShared ==
  \/ \E u \in Urls : FetchCall(u)
  \/ FetchSend
  \/ \E o \in NetOutcomes : FetchSettle(o)
  \/ FetchDelayElapsed
  \/ Awaiting /\ \E r \in 0..MaxRetriesOpt : setMaxRetries(r)
  \/ Awaiting /\ \E ms \in {DEFAULT_TIMEOUT, 1} : setTimeout(ms)
  \/ Awaiting /\ \E agent \in {USER_AGENT, OtherAgent} : setUserAgent(agent)

SpecShared == InitFetch /\ [][NextShared]_vars

\* the module-level httpClient = new HttpClient() serving searchMovie
Init ==
  /\ maxRetries = HttpClientNew(NotGiven)
  /\ InitFetchVars
  /\ InitSearchVars
  /\ InitSelectVars
  /\ InitDetailVars
  /\ InitAppVars

Next ==
  \/ \E name \in Queries : searchMovie(name)
  \/ FetchSend
  \/ \E o \in NetOutcomes : FetchSettle(o)
  \/ FetchDelayElapsed
  \/ SearchMainFetched
  \/ spc = "main_json" /\ \E body \in JsonBodies : SearchMainSettled(body)
  \/ SearchBackupFetched
  \/ spc = "backup_text" /\ \E html \in SearchPages : SearchBackupSettled(html)

Spec == Init /\ [][Next]_vars

\* selectBestMatch called on the list a search returned
InitSelect ==
  /\ maxRetries = HttpClientNew(NotGiven)
  /\ InitFetchVars
  /\ spc = "done"
  /\ sres = Returned
  /\ movieName \in SelectQueries
  /\ results \in CandidateLists
  /\ mainOutcome = "ok"
  /\ backupOutcome = "none"
  /\ mainBody = NoBody
  /\ backupBody = NoBody
  /\ mainList = results
  /\ backupList = <<>>
  /\ InitSelectVars
  /\ InitDetailVars
  /\ InitAppVars

NextSelect == selectBestMatch

SpecSelect == InitSelect /\ [][NextSelect]_vars

\* getMovieInfo called through the module-level httpClient
NextDetail ==
  \/ \E url \in DetailUrls : getMovieInfo(url)
  \/ FetchSend
  \/ \E o \in NetOutcomes : FetchSettle(o)
  \/ FetchDelayElapsed
  \/ DetailFetched
  \/ dpc = "text" /\ \E page \in DetailPages : DetailSettled(page)

SpecDetail == Init /\ [][NextDetail]_vars

\* getMovieInfo on pages of genre and cast markup
NextLists ==
  \/ \E url \in DetailUrls : getMovieInfo(url)
  \/ FetchSend
  \/ \E o \in NetOutcomes : FetchSettle(o)
  \/ FetchDelayElapsed
  \/ DetailFetched
  \/ dpc = "text" /\ \E page \in ListPages : DetailSettled(page)

SpecLists == Init /\ [][NextLists]_vars

\* getMovieInfo on pages of summary markup
NextSummary ==
  \/ \E url \in DetailUrls : getMovieInfo(url)
  \/ FetchSend
  \/ \E o \in NetOutcomes : FetchSettle(o)
  \/ FetchDelayElapsed
  \/ DetailFetched
  \/ dpc = "text" /\ \E page \in SummaryPages : DetailSettled(page)

SpecSummary == Init /\ [][NextSummary]_vars

\* validateMovieInfo and cleanMovieInfo on records with raw whitespace
InitClean ==
  /\ maxRetries = HttpClientNew(NotGiven)
  /\ InitFetchVars
  /\ InitSearchVars
  /\ InitSelectVars
  /\ InitDetailVars
  /\ rawInfo \in Records \cup PartialRecords
  /\ cleaned = <<>>
  /\ InitClientVars
  /\ InitApiVars
  /\ InitMwVars

NextClean == CleanCall

SpecClean == InitClean /\ [][NextClean]_vars

\* one POST /api/search request served through the module-level httpClient
NextApi ==
  \/ \E method \in ApiMethods, name \in ApiNames : handleMovieSearchApi(method, name)
  \/ FetchSend
  \/ \E o \in NetOutcomes : FetchSettle(o)
  \/ FetchDelayElapsed
  \/ SearchMainFetched
  \/ spc = "main_json" /\ \E body \in ApiBodies : SearchMainSettled(body)
  \/ SearchBackupFetched
  \/ spc = "backup_text" /\ \E html \in ApiSearchPages : SearchBackupSettled(html)
  \/ AfterSearchMovie
  \/ CallGetMovieInfo
  \/ DetailFetched
  \/ dpc = "text" /\ \E page \in ApiPages : DetailSettled(page)
  \/ AfterGetMovieInfo

SpecApi == Init /\ [][NextApi]_vars

\* one request through the handler applyMiddleware builds with the default
\* middleware stack
InitMiddleware ==
  /\ maxRetries = HttpClientNew(NotGiven)
  /\ InitFetchVars
  /\ InitSearchVars
  /\ InitSelectVars
  /\ InitDetailVars
  /\ InitCleanVars
  /\ InitApiVars
  /\ InitClientVars
  /\ mwRequest \in Requests
  /\ index = 0
  /\ awaiting = <<>>
  /\ settled = Pending

NextMiddleware ==
  \/ Dispatch
  \/ \E outcome \in HandlerOutcomes : CallHandler(outcome)
  \/ Resume

SpecMiddleware == InitMiddleware /\ [][NextMiddleware]_vars

\* one call of the module's API, searchMovie or getMovieInfo
NextCalls ==
  \/ Next
  \/ spc = "idle" /\ NextDetail

SpecCalls == Init /\ [][NextCalls]_vars

\* ------------------------------------------------------------------------
\* Properties of HttpClient.fetch (checked under SpecFetch)
\* ------------------------------------------------------------------------
IsClientError(o) == o.kind = "status" /\ o.status >= 400 /\ o.status < 500

RetryableFailure(o) ==
  \/ o.kind \in {"timeout", "transport"}
  \/ o.kind = "status" /\ ~(o.status >= 200 /\ o.status <= 299) /\ ~IsClientError(o)

\* C1: when every attempt of a completed fetch call ended in a retryable
\* failure, the call made exactly maxRetries + 1 attempts and failed with a
\* NetworkError; a timeout of an attempt that is not the last one is
\* followed by a further attempt.
C1_RetryableFailuresExhaustAttempts ==
  /\ (fpc = "done" /\ \A i \in 1..Len(attemptLog) : RetryableFailure(attemptLog[i]))
       => (Len(attemptLog) = maxRetries + 1 /\ fres = ErrorOf(NETWORK_ERROR))
  /\ \A i \in 1..Len(attemptLog) :
       (fpc = "done" /\ attemptLog[i].kind = "timeout" /\ i <= maxRetries)
         => i < Len(attemptLog)

C1_Witness ==
  /\ fpc = "done"
  /\ maxRetries = 2
  /\ Len(attemptLog) = 3
  /\ \A i \in 1..3 : attemptLog[i].kind = "timeout"
  /\ fres = ErrorOf(NETWORK_ERROR)

\* C2: a response with a status in [400,500) ends the fetch call at once: it
\* is the last attempt of the call, the call has failed with a NetworkError
\* and no delay or further attempt follows it.
C2_ClientErrorFailsImmediately ==
  \A i \in 1..Len(attemptLog) :
    IsClientError(attemptLog[i])
      => /\ i = Len(attemptLog)
         /\ fpc = "done"
         /\ fres = ErrorOf(NETWORK_ERROR)

\* C13: every retry is preceded by its delay: when attempt k + 1 starts,
\* one delay has elapsed for each of the k + 1 failed attempts before it,
\* the one after the attempt of index k being RETRY_DELAY * (k + 1)
C13_LinearDelayBeforeEveryRetry ==
  fpc \in {"loop", "inflight"}
    => /\ Len(delayLog) = attempt
       /\ \A k \in 1..Len(delayLog) : delayLog[k] = RETRY_DELAY * k

AttemptOk(o) == o.kind = "status" /\ ResponseOk(o.status)

\* C14: a fetch call shows its caller nothing until it has completed, and
\* then either the 2xx response of its last attempt, no earlier attempt
\* having succeeded, or an error of kind NETWORK_ERROR after attempts that
\* all failed
C14_ResponseOrNetworkError ==
  /\ fpc # "done" => fres = Pending
  /\ fpc = "done"
       => \/ /\ fres.kind = "response"
             /\ ResponseOk(fres.status)
             /\ Len(attemptLog) >= 1
             /\ attemptLog[Len(attemptLog)] = [kind |-> "status", status |-> fres.status]
             /\ \A i \in 1..(Len(attemptLog) - 1) : ~AttemptOk(attemptLog[i])
          \/ /\ fres = ErrorOf(NETWORK_ERROR)
             /\ \A i \in 1..Len(attemptLog) : ~AttemptOk(attemptLog[i])

\* a transport exception on the last attempt has become a NetworkError
C14_Witness ==
  /\ fpc = "done"
  /\ fres = ErrorOf(NETWORK_ERROR)
  /\ Len(attemptLog) = maxRetries + 1
  /\ attemptLog[Len(attemptLog)].kind = "transport"
  /\ attemptLog[1].kind = "status"

\* ------------------------------------------------------------------------
\* Properties of searchMovie (checked under Spec)
\* ------------------------------------------------------------------------
\* res keeps entries of src in source order: an increasing choice of source
\* positions gives the urls of res
InSourceOrder(res, src) ==
  \E f \in [1..Len(res) -> 1..Len(src)] :
    /\ \A k \in 1..Len(res) : res[k].url = AbsoluteUrl(src[f[k]].url)
    /\ \A k \in 1..(Len(res) - 1) : f[k] < f[k + 1]

\* C3: searchMovie returns the list of exactly one strategy, in source
\* order: the primary list when it is non-empty, otherwise the backup list
\* (possibly empty); the backup request is issued if and only if the primary
\* list is empty, and only once the primary strategy has completed.
C3_OneStrategyInSourceOrder ==
  /\ (spc = "done" /\ sres = Returned)
       => /\ results = (IF mainList # <<>> THEN mainList ELSE backupList)
          /\ (backupOutcome # "none") <=> (mainList = <<>>)
          /\ mainList # <<>> => InSourceOrder(results, mainBody.data)
          /\ mainList = <<>> => InSourceOrder(results, backupBody.data)
  /\ spc \in {"main", "main_json"} => backupOutcome = "none"
  /\ spc = "main" => reqUrl.endpoint = "suggest"
  /\ reqUrl.endpoint = "search"
       => (spc = "backup" /\ mainOutcome # "none" /\ mainList = <<>>)
  /\ (spc = "done" /\ Trim(movieName) # <<>>) => sres = Returned

C3_WitnessPrimary ==
  /\ spc = "done" /\ sres = Returned
  /\ Len(results) = 2 /\ results[1].id # results[2].id
  /\ backupOutcome = "none"

C3_Witness ==
  /\ spc = "done" /\ sres = Returned
  /\ mainOutcome = "ok" /\ mainBody.data # <<>> /\ mainList = <<>>
  /\ Len(results) = 2 /\ results[1].id # results[2].id
  /\ results = backupList

PrimaryFailed ==
  \/ mainBody.kind \in {"none", "invalid", "object"}
  \/ \E i \in 1..Len(mainBody.data) : mainBody.data[i].isNull

\* C4: once the primary strategy has failed (fetch error after retries,
\* undecodable payload, non-array payload, entry that cannot be mapped), its
\* result is the empty list, nothing is raised to the caller of searchMovie
\* on its account and the backup strategy is attempted.
C4_PrimaryFailureTriggersBackup ==
  (mainOutcome # "none" /\ PrimaryFailed)
    => /\ mainList = <<>>
       /\ spc \in {"backup", "backup_text"} \/ backupOutcome # "none"
       /\ spc \in {"backup", "backup_text"} => sres = Pending
       /\ spc = "backup" => reqUrl.endpoint = "search"
       /\ spc = "done" => sres = Returned

C4_Witness ==
  /\ spc = "done"
  /\ mainOutcome = "mapping_error"
  /\ backupOutcome = "ok"
  /\ results # <<>>

C4_WitnessNetwork ==
  /\ spc = "backup"
  /\ mainOutcome = "fetch_error"
  /\ fpc = "inflight"

\* C5: for a non-empty query, searchMovie fails with a NetworkError when the
\* requests of both strategies failed unrecoverably, and it returns an empty
\* list only when a strategy completed its request and found no candidate.
C5_BothStrategiesFailRaises ==
  (spc = "done" /\ Trim(movieName) # <<>>)
    => /\ (mainBody = NoBody /\ backupBody = NoBody) => sres = ErrorOf(NETWORK_ERROR)
       /\ (sres = Returned /\ results = <<>>) => backupBody # NoBody

\* C11: every candidate of the list searchMovie returns, from either
\* strategy, has a non-empty id, a non-empty url and a non-empty title
C11_CandidatesHaveNonEmptyFields ==
  (spc = "done" /\ sres = Returned)
    => \A i \in 1..Len(results) :
         /\ results[i].id # <<>>
         /\ results[i].url # <<>>
         /\ results[i].title # <<>>

\* ------------------------------------------------------------------------
\* Properties of the argument checks (checked under SpecCalls)
\* ------------------------------------------------------------------------
\* C12: searchMovie with an empty or whitespace-only name and getMovieInfo
\* with an empty url fail with InvalidArgs, and the call never starts a
\* request: it is finished as soon as it has started, the client idle
C12_InvalidArgsWithoutRequest ==
  /\ (spc # "idle" /\ Trim(movieName) = <<>>)
       => /\ spc = "done"
          /\ sres = ErrorOf(INVALID_ARGS)
          /\ fpc = "idle"
          /\ mainOutcome = "none" /\ backupOutcome = "none"
  /\ (dpc # "idle" /\ movieUrl = <<>>)
       => /\ dpc = "done"
          /\ dres = ErrorOf(INVALID_ARGS)
          /\ fpc = "idle"
          /\ detailBody = NoBody

\* a whitespace-only name has been refused
C12_Witness ==
  /\ spc = "done"
  /\ movieName = <<" ">>
  /\ sres = ErrorOf(INVALID_ARGS)
  /\ fpc = "idle"

\* an empty url has been refused
C12_WitnessUrl ==
  /\ dpc = "done"
  /\ movieUrl = <<>>
  /\ dres = ErrorOf(INVALID_ARGS)
  /\ fpc = "idle"

\* ------------------------------------------------------------------------
\* Properties of selectBestMatch (checked under SpecSelect)
\* ------------------------------------------------------------------------
ScoreAt(k) ==
  calculateSimilarity(cleanWhitespace(toLowerCase(movieName)),
                      cleanWhitespace(toLowerCase(results[k].title)))

\* C8: for two or more candidates selectBestMatch returns a candidate of
\* the highest score, and among the candidates of the highest score the one
\* that comes first in the input list.
C8_HighestScoreFirstOnTies ==
  (selres = Returned /\ Len(results) >= 2)
    => \E k \in 1..Len(results) :
         /\ bestMatch = results[k]
         /\ \A j \in 1..Len(results) : ~ScoreLess(ScoreAt(k), ScoreAt(j))
         /\ \A j \in 1..(k - 1) : ScoreLess(ScoreAt(j), ScoreAt(k))

\* three candidates, the last two tie for the highest score
C8_Witness ==
  /\ selres = Returned
  /\ Len(results) = 3
  /\ bestMatch = results[2]
  /\ ScoreAt(2) = ScoreAt(3)
  /\ results[2].title # results[3].title
  /\ ScoreLess(ScoreAt(1), ScoreAt(2))

\* ------------------------------------------------------------------------
\* Properties of getMovieInfo (checked under SpecDetail)
\* ------------------------------------------------------------------------
\* getMovieInfo has finished on a page that was retrieved
Parsed == dpc = "done" /\ detailBody.kind = "html"

\* getMovieInfo has finished without a page: fetchText threw
RetrievalFailed == dpc = "done" /\ movieUrl # <<>> /\ detailBody.kind = "none"

\* no rule of the field yields a value on the page
NoRuleSucceeds(field, html) ==
  \A k \in 1..RuleCount(field) : ~RuleOutput(field, html, k).m

\* C6: when no title rule extracts a title from the page, getMovieInfo fails
\* with a ParseError; it never returns a record whose title is the
\* placeholder of the title rule list
C6_MissingTitleIsParseError ==
  /\ (Parsed /\ NoRuleSucceeds("title", detailBody.data))
       => dres = ErrorOf(PARSE_ERROR)
  /\ dres = Returned => movieInfo.title # UnknownTitle

\* C7: getMovieInfo fails with NetworkError when the detail page could not
\* be retrieved, and with ParseError only on a page that was retrieved
C7_RetrievalFailureIsNetworkError ==
  /\ RetrievalFailed => dres = ErrorOf(NETWORK_ERROR)
  /\ (dpc = "done" /\ dres = ErrorOf(PARSE_ERROR)) => detailBody.kind = "html"

\* the value the rules of a field give when tried in their declared order
FirstSuccess(field, html) ==
  LET S == {k \in 1..RuleCount(field) : RuleOutput(field, html, k).m}
  IN  IF S = {} THEN Sentinel(field) ELSE RuleOutput(field, html, SetMin(S)).g

TwoYears ==
  /\ Parsed
  /\ FirstFrom(detailBody.data, 1, ReleaseDate).m
  /\ FirstFrom(detailBody.data, 1, YearSpan).m
  /\ FirstFrom(detailBody.data, 1, ReleaseDate).g
       # FirstFrom(detailBody.data, 1, YearSpan).g

\* C10 as stated: the release-date attribute has priority over the
\* parenthesized year span
C10_ReleaseDateAttributeFirst ==
  TwoYears => movieInfo.year = FirstFrom(detailBody.data, 1, ReleaseDate).g

\* C10 amended: the year is taken from the parenthesized year span first,
\* then the release-date attribute, then the first four digits behind the
\* release-date label, then behind the year label, then the first
\* parenthesized four digits of the page, else the sentinel
C10_YearSpanFirst ==
  Parsed =>
    LET html == detailBody.data
        span == FirstFrom(html, 1, YearSpan)
        rdate == FirstFrom(html, 1, ReleaseDate)
        rlabel == Behind(html, IsReleaseLabel, Digits4)
        ylabel == Behind(html, IsYearLabel, Digits4)
        paren == FirstFrom(html, 1, ParenYear)
    IN  movieInfo.year =
          IF span.m THEN span.g
          ELSE IF rdate.m THEN rdate.g
          ELSE IF rlabel.m THEN rlabel.g
          ELSE IF ylabel.m THEN ylabel.g
          ELSE IF paren.m THEN paren.g
          ELSE UnknownYear

\* both match with different years and the record has the year span's
C10_Witness ==
  /\ TwoYears
  /\ dres = Returned
  /\ movieInfo.year = FirstFrom(detailBody.data, 1, YearSpan).g

\* C15: selectBestMatch on an empty list fails with NoResults and returns
\* no candidate
C15_EmptyListIsNoResults ==
  (selres # Pending /\ Len(results) = 0)
    => /\ selres = ErrorOf(NO_RESULTS)
       /\ bestMatch = NoCandidate

C15_Witness ==
  /\ selres = ErrorOf(NO_RESULTS)
  /\ results = <<>>
  /\ movieName # <<>>

\* C16: for a list of exactly one candidate selectBestMatch returns that
\* candidate, for every query and title, and no score has been computed
C16_SingletonReturned ==
  (selres # Pending /\ Len(results) = 1)
    => /\ selres = Returned
       /\ bestMatch = results[1]
       /\ scores = <<>>

\* the only candidate is returned although its title shares nothing with
\* the query
C16_Witness ==
  /\ selres = Returned
  /\ Len(results) = 1
  /\ bestMatch = results[1]
  /\ movieName = <<"b", "c">>
  /\ results[1].title = <<"A", "B">>

\* the least number of single-character insertions, deletions and
\* substitutions that turn a into b
RECURSIVE EditDistance(_, _)
EditDistance(a, b) ==
  IF a = <<>> THEN Len(b)
  ELSE IF b = <<>> THEN Len(a)
  ELSE IF Head(a) = Head(b) THEN EditDistance(Tail(a), Tail(b))
  ELSE 1 + Min3(EditDistance(Tail(a), b), EditDistance(a, Tail(b)),
                EditDistance(Tail(a), Tail(b)))

\* two scores are the same number
ScoreEq(x, y) == x.num * y.den = y.num * x.den

\* the normalized string selectBestMatch scores
Normalized(str) == cleanWhitespace(toLowerCase(str))

\* C17: the score computed for the normalized query a and the normalized
\* title b is 1 when a = b, 4/5 when they differ and one contains the other,
\* and 1 - lev(a, b) / max(len(a), len(b)) otherwise, lev being the unit-cost
\* edit distance; calculateSimilarity gives the same score for (b, a)
C17_SimilarityFormula ==
  \A k \in 1..Len(scores) :
    LET a == Normalized(movieName)
        b == Normalized(results[k].title)
        m == IF Len(a) >= Len(b) THEN Len(a) ELSE Len(b)
    IN  /\ scores[k].result = results[k]
        /\ a = b => ScoreEq(scores[k].score, Score(1, 1))
        /\ (a # b /\ (Includes(a, b) \/ Includes(b, a)))
             => ScoreEq(scores[k].score, Score(4, 5))
        /\ (a # b /\ ~Includes(a, b) /\ ~Includes(b, a))
             => ScoreEq(scores[k].score, Score(m - EditDistance(a, b), m))
        /\ ScoreEq(calculateSimilarity(b, a), scores[k].score)

\* "abc" against "abd" has scored 1 - 1/3, next to a pair of empty strings
\* and a containment
C17_Witness ==
  /\ Len(scores) = 3
  /\ movieName = <<"a", "b", "c">>
  /\ results[1].title = <<"a", "b", "d">>
  /\ ScoreEq(scores[1].score, Score(2, 3))
  /\ results[2].title = <<"b">>
  /\ ScoreEq(scores[2].score, Score(4, 5))
  /\ results[3].title = <<"b", "a", "c">>
  /\ ScoreEq(scores[3].score, Score(1, 3))

\* the candidate selectBestMatch picks from two or more candidates
Selected(list, name) == SortByScore(scoredResults(list, name))[1].result

\* C18: for two or more candidates the selected position is the one selected
\* for the normalized query and normalized titles, and the one selected for
\* any other query with the same normalized form; a title equal to the
\* query after normalization scores 1
C18_CaseAndWhitespaceInvariant ==
  (selres = Returned /\ Len(results) >= 2)
    => /\ LET normList == [k \in 1..Len(results) |->
                             [results[k] EXCEPT !.title = Normalized(@)]]
          IN  bestMatch.id = Selected(normList, Normalized(movieName)).id
       /\ \A q \in SelectQueries :
            Normalized(q) = Normalized(movieName)
              => bestMatch.id = Selected(results, q).id
       /\ \A k \in 1..Len(results) :
            Normalized(results[k].title) = Normalized(movieName)
              => ScoreEq(scores[k].score, Score(1, 1))

\* the query "Ab " selects the title "AB" behind the title "abc"
C18_Witness ==
  /\ selres = Returned
  /\ movieName = <<"A", "b", " ">>
  /\ Len(results) = 2
  /\ results[1].title = <<"a", "b", "c">>
  /\ results[2].title = <<"A", "B">>
  /\ bestMatch = results[2]
  /\ ScoreEq(scores[2].score, Score(1, 1))

\* digits, a dot, digits, and nothing else
DecimalShape(s) ==
  \E i \in 2..(Len(s) - 1) :
    /\ s[i] = "."
    /\ \A j \in 1..Len(s) : j # i => s[j] \in Digits

\* C19: the rating of a returned record is the rating sentinel or a string
\* of decimal-number shape as a whole
C19_RatingIsDecimalOrSentinel ==
  dres = Returned
    => (movieInfo.rating = NoRating \/ DecimalShape(movieInfo.rating))

\* the non-empty entries of seq, each at its first occurrence
FirstOccurrences(seq) ==
  LET F[i \in 0..Len(seq)] ==
        IF i = 0 THEN <<>>
        ELSE IF seq[i] # <<>> /\ (\A j \in 1..(i - 1) : seq[j] # seq[i])
             THEN Append(F[i - 1], seq[i])
             ELSE F[i - 1]
  IN  F[Len(seq)]

\* the distinct normalized matches of rule k of a list field, in page order
RuleList(field, html, k) ==
  LET M == ListMatches(field, html, k)
  IN  FirstOccurrences([i \in 1..Len(M) |-> Trim(stripHtml(M[i]))])

\* C20: a list field of a parsed record is never empty and holds no
\* duplicate and no empty string; it is the list of the distinct normalized
\* matches, in page order, of the first rule of the field that gives any,
\* and the single placeholder when no rule gives one
C20_ListFieldFromFirstMatchingRule ==
  Parsed =>
    \A field \in {"genres", "actors"} :
      LET list == movieInfo[field]
          S == {k \in 1..3 : RuleList(field, detailBody.data, k) # <<>>}
      IN  /\ Len(list) >= 1
          /\ \A i \in 1..Len(list) : list[i] # <<>>
          /\ \A i, j \in 1..Len(list) : list[i] = list[j] => i = j
          /\ list = IF S = {} THEN ListSentinel(field)
                    ELSE RuleList(field, detailBody.data, SetMin(S))

\* the first genre rule matches three times, twice the same text, and a
\* later rule matches too; the cast has no match
C20_Witness ==
  /\ Parsed
  /\ detailBody.data = << Frag("genre", <<"X">>), Frag("genrelink", <<"L">>),
                          Frag("genre", <<"X">>) >>
  /\ movieInfo.genres = << <<"X">> >>
  /\ movieInfo.actors = << UnknownActor >>

\* the cleaned text of summary rule k on the page, <<>> without a capture
CleanedSummary(html, k) ==
  LET match == SummaryCapture(html, k)
  IN  IF match.m THEN SummaryClean(match.g) ELSE <<>>

\* C21: the summary is the sentinel when no rule gives a cleaned text of
\* more than 10 characters; otherwise it comes from the first rule that
\* does: that text itself when it has at most 500 characters, else its
\* first 497 characters followed by "...", 500 characters in all
C21_SummaryLengthLimits ==
  Parsed =>
    LET html == detailBody.data
        summary == movieInfo.summary
        S == {k \in 1..RuleCount("summary") :
                Len(CleanedSummary(html, k)) > MinSummaryLength}
    IN  IF S = {} THEN summary = NoSummary
        ELSE LET c == CleanedSummary(html, SetMin(S))
             IN  /\ Len(summary) > MinSummaryLength
                 /\ Len(summary) <= MaxSummaryLength
                 /\ IF Len(c) <= MaxSummaryLength THEN summary = c
                    ELSE /\ Len(summary) = MaxSummaryLength
                         /\ SubSeq(summary, 1, MaxSummaryLength - 3)
                              = SubSeq(c, 1, MaxSummaryLength - 3)
                         /\ SubSeq(summary, MaxSummaryLength - 2, MaxSummaryLength)
                              = <<".", ".", ".">>

\* the first rule gives 10 characters and is skipped, the second gives 501
\* characters and is cut to 500
C21_Witness ==
  /\ Parsed
  /\ Len(CleanedSummary(detailBody.data, 1)) = MinSummaryLength
  /\ Len(CleanedSummary(detailBody.data, 2)) = MaxSummaryLength + 1
  /\ Len(movieInfo.summary) = MaxSummaryLength
  /\ movieInfo.summary[MaxSummaryLength - 3] = "v"
  /\ movieInfo.summary[MaxSummaryLength] = "."

IsTrimmed(s) == s = <<>> \/ (s[1] \notin Whitespace /\ s[Len(s)] \notin Whitespace)

IsCollapsed(s) ==
  \A i \in 1..Len(s) :
    s[i] \in Whitespace => s[i] = " " /\ (i > 1 => s[i - 1] \notin Whitespace)

\* C22: cleanMovieInfo is idempotent on every record that passes
\* validateMovieInfo: cleaning the cleaned record gives the cleaned record,
\* field by field, list order and list content included
C22_CleanIsIdempotent ==
  Len(cleaned) = 2 =>
    /\ cleaned[1] = cleanMovieInfo(rawInfo)
    /\ \A field \in requiredFields : cleaned[2][field] = cleaned[1][field]

C22_Witness ==
  /\ Len(cleaned) = 2
  /\ validateMovieInfo(rawInfo)
  /\ cleaned[1].title # rawInfo.title
  /\ Len(cleaned[1].genres) = 1
  /\ Len(rawInfo.genres) = 2

\* C23 as stated: after cleanMovieInfo each of the five scalar fields has
\* its whitespace runs collapsed and its ends trimmed, every list element is
\* trimmed and no list element is empty
C23_EveryFieldNormalized ==
  \A n \in 1..Len(cleaned) :
    /\ \A field \in {"title", "year", "rating", "poster", "summary"} :
         IsCollapsed(cleaned[n][field]) /\ IsTrimmed(cleaned[n][field])
    /\ \A field \in {"genres", "actors"} : \A i \in 1..Len(cleaned[n][field]) :
         IsTrimmed(cleaned[n][field][i]) /\ cleaned[n][field][i] # <<>>

\* C23 as the code has it: title and summary are collapsed and trimmed,
\* year, rating and poster are trimmed at their ends only, every list
\* element is collapsed and trimmed and no list element is empty
C23_NormalizedPerField ==
  \A n \in 1..Len(cleaned) :
    /\ \A field \in {"title", "summary"} :
         IsCollapsed(cleaned[n][field]) /\ IsTrimmed(cleaned[n][field])
    /\ \A field \in {"year", "rating", "poster"} :
         /\ IsTrimmed(cleaned[n][field])
         /\ n = 1 => cleaned[n][field] = Trim(rawInfo[field])
    /\ \A field \in {"genres", "actors"} : \A i \in 1..Len(cleaned[n][field]) :
         /\ IsCollapsed(cleaned[n][field][i])
         /\ IsTrimmed(cleaned[n][field][i])
         /\ cleaned[n][field][i] # <<>>

C23_Witness ==
  /\ Len(cleaned) = 1
  /\ ~IsCollapsed(cleaned[1].year)
  /\ IsCollapsed(cleaned[1].title)
  /\ ~IsCollapsed(rawInfo.title)
  /\ Len(cleaned[1].actors) < Len(rawInfo.actors)

\* C24: the timeout and the number of attempts of a fetch that is in flight
\* are fixed by the configuration the call started with: every attempt is
\* armed with that timeout, there are at most that maxRetries + 1 attempts,
\* and the call fails only after that many; no setter called by another
\* caller between the attempts changes them
C24_InFlightConfigFixed ==
  fpc # "idle" =>
    /\ \A k \in 1..Len(timeoutLog) : timeoutLog[k] = callConfig.timeout
    /\ Len(attemptLog) <= callConfig.maxRetries + 1
    /\ fres.kind = "error" => Len(attemptLog) = callConfig.maxRetries + 1

\* the User-Agent header of a running call is the one built at its entry
RequestOptionsBuiltOnce ==
  [][fpc # "idle" /\ fpc' # "idle" => requestOptions' = requestOptions]_vars

\* C27: a client configured with zero retries, by the constructor option
\* retries: 0 or by setMaxRetries(0), makes exactly one attempt per fetch
C27_ZeroRetriesOneAttempt ==
  retriesGiven.retries = 0 /\ fpc = "done" => Len(attemptLog) = 1

\* ------------------------------------------------------------------------
\* Properties of the POST /api/search resolution (checked under SpecApi)
\* ------------------------------------------------------------------------
\* a fetch call for the endpoint is running: its attempts, retries and delays
Requesting(endpoint) == fpc # "idle" /\ reqUrl.endpoint = endpoint

\* C25: within one resolution at most one HTTP request is in flight: while
\* the primary search request runs nothing else has started, the backup
\* search request runs only after the primary one and its retries have
\* completed, the detail request runs only after the search has returned and
\* selectBestMatch has chosen the candidate it is sent for, and while a
\* response body is read no request is running
C25_OneRequestAtATime ==
  /\ Requesting("suggest") =>
       /\ spc = "main"
       /\ backupOutcome = "none"
       /\ selres = Pending
       /\ dpc = "idle"
  /\ Requesting("search") =>
       /\ spc = "backup"
       /\ mainOutcome # "none"
       /\ selres = Pending
       /\ dpc = "idle"
  /\ Requesting("detail") =>
       /\ spc = "done"
       /\ sres = Returned
       /\ selres = Returned
       /\ dpc = "fetch"
       /\ reqUrl.arg = bestMatch.url
  /\ spc \in {"main_json", "backup_text"} => fpc = "idle" /\ dpc = "idle"
  /\ dpc = "text" => fpc = "idle" /\ spc = "done"

C25_Witness ==
  /\ Requesting("detail")
  /\ fpc = "inflight"
  /\ attempt = 1
  /\ Len(results) = 2
  /\ bestMatch = results[2]
  /\ apiResponse = NoResponse

\* the search ended without candidates because its last request failed
SearchRetrievalFailed ==
  /\ spc = "done"
  /\ sres = Returned
  /\ results = <<>>
  /\ backupOutcome = "fetch_error"

\* the search read its responses and found no candidate in them
ZeroCandidates ==
  /\ spc = "done"
  /\ sres = Returned
  /\ results = <<>>
  /\ mainOutcome # "fetch_error"
  /\ backupOutcome # "fetch_error"

\* C26: the handler answers 404 when the search yields zero candidates, 400
\* for InvalidArgs, 503 for a network failure in search or detail
\* retrieval, 502 for a detail page that cannot be parsed, and 200 for a
\* successful resolution
C26_StatusOfFailureKind ==
  apiResponse # NoResponse /\ apiResponse.status # 405 =>
    /\ ZeroCandidates => apiResponse.status = 404
    /\ (spc = "idle" \/ sres = ErrorOf(INVALID_ARGS)) => apiResponse.status = 400
    /\ SearchRetrievalFailed => apiResponse.status = 503
    /\ RetrievalFailed => apiResponse.status = 503
    /\ (Parsed /\ dres.kind = "error") => apiResponse.status = 502
    /\ (Parsed /\ dres = Returned) => apiResponse.status = 200

\* ------------------------------------------------------------------------
\* Properties of the default middleware stack (checked under SpecMiddleware)
\* ------------------------------------------------------------------------
\* the promise of the handler applyMiddleware returned has settled
Finished == settled # Pending /\ awaiting = <<>>

\* C28: with the default middleware stack every exception raised while a
\* request is processed, by the route handler or by a middleware, is turned
\* into an error response by errorMiddleware: the handler applyMiddleware
\* returns never rejects
C28_HandlerNeverRejects == Finished => settled.kind = "response"

\* the candidate's normalized title equals the normalized query
Exact(k) == Normalized(results[k].title) = Normalized(movieName)

\* C29: for two or more candidates of which at least one has a normalized
\* title equal to the normalized query, selectBestMatch returns the first
\* such candidate of the input list; every other candidate scores below 1:
\* 4/5 when one string contains the other, at most 1 - 1/max(len) otherwise
C29_FirstExactMatchWins ==
  (selres = Returned /\ Len(results) >= 2 /\ \E k \in 1..Len(results) : Exact(k))
    => /\ bestMatch = results[SetMin({k \in 1..Len(results) : Exact(k)})]
       /\ \A k \in 1..Len(results) : ~Exact(k) =>
            LET a == Normalized(movieName)
                b == Normalized(results[k].title)
                m == Max(Len(a), Len(b))
            IN  /\ ScoreLess(scores[k].score, Score(1, 1))
                /\ IF Includes(a, b) \/ Includes(b, a)
                   THEN ScoreEq(scores[k].score, Score(4, 5))
                   ELSE ~ScoreLess(Score(m - 1, m), scores[k].score)

\* a containing title first, then two titles that equal the query after
\* normalization
C29_Witness ==
  /\ selres = Returned
  /\ Len(results) = 3
  /\ movieName = <<"a", " ", "b">>
  /\ results[1].title = <<"b">>
  /\ results[2].title = <<"A", " ", "b">>
  /\ results[3].title = <<" ", "a", " ", " ", "b">>
  /\ bestMatch = results[2]

\* C30: selectBestMatch leaves its inputs as they were: whatever the
\* outcome, the candidate list is the list the search handed over, elements
\* and order, and the query is the same; a returned value is an element of
\* that list
C30_InputsUntouched ==
  selres # Pending =>
    /\ results = mainList
    /\ \A k \in 1..Len(results) :
         /\ results[k].id = <<CandidateIds[k]>>
         /\ results[k].url = AbsoluteUrl(Rel(CandidateIds[k]))
    /\ selres = Returned => \E k \in 1..Len(results) : bestMatch = results[k]

\* the last of three candidates is returned
C30_Witness ==
  /\ selres = Returned
  /\ Len(results) = 3
  /\ bestMatch = results[3]
  /\ ScoreLess(ScoreAt(1), ScoreAt(2))
  /\ ScoreLess(ScoreAt(2), ScoreAt(3))
  /\ results = mainList

====
